---------------------------- MODULE Spec2Model ----------------------------
(***************************************************************************)
(* Verification model of the tutor-ai-database scripts.                    *)
(*                                                                         *)
(* File names and raw texts are TLA+ strings, read character by character  *)
(* with Len, SubSeq and \o, so that the regular expressions of the source  *)
(* are modelled by what they match.  Similarities are exact fractions      *)
(* [num, den] (the source divides two small integers), thresholds too.     *)
(***************************************************************************)
EXTENDS Integers, Sequences, FiniteSets, TLC

(***************************************************************************)
(* Bounds of the model.                                                    *)
(***************************************************************************)
\* longest file list handed to a pairing routine
MaxFiles == 4

\* most batches of one upsert_chunks call
MaxBatches == 3

\* most chunks handed to upload_to_pinecone
MaxChunks == 4

(***************************************************************************)
(* Characters and strings.                                                 *)
(***************************************************************************)
Ch(s, i) == SubSeq(s, i, i)

UpperChars == "ABCDEFGHIJKLMNOPQRSTUVWXYZ"
LowerChars == "abcdefghijklmnopqrstuvwxyz"
DigitChars == "0123456789"

InStr(c, s) == \E i \in 1..Len(s) : Ch(s, i) = c

\* str.lower() on one ASCII character
lower_char(c) ==
    IF InStr(c, UpperChars)
    THEN Ch(LowerChars, CHOOSE i \in 1..Len(UpperChars) : Ch(UpperChars, i) = c)
    ELSE c

\* str.lower()
RECURSIVE lower(_)
lower(s) == IF s = "" THEN "" ELSE lower_char(Ch(s, 1)) \o lower(SubSeq(s, 2, Len(s)))

\* regex class \w (ASCII): letters, digits and the underscore
IsWordChar(c) ==
    InStr(c, UpperChars) \/ InStr(c, LowerChars) \/ InStr(c, DigitChars) \/ c = "_"

\* regex class \s
IsSpace(c) == c \in {" ", "\t", "\n", "\r", "\f"}

\* the literal kw occurs in s at index i
MatchAt(s, i, kw) ==
    /\ i >= 1
    /\ i + Len(kw) - 1 <= Len(s)
    /\ SubSeq(s, i, i + Len(kw) - 1) = kw

\* python: kw in s
Contains(s, kw) == \E i \in 1..(Len(s) + 1) : MatchAt(s, i, kw)

\* regex \b between the characters p and p+1 of s (p = 0: before the first)
WordBoundary(s, p) ==
    LET before == p >= 1 /\ p <= Len(s) /\ IsWordChar(Ch(s, p))
        after  == p + 1 <= Len(s) /\ IsWordChar(Ch(s, p + 1))
    IN  before # after

\* re.search(r'\b' + re.escape(kw) + r'\b', s)
search_word(kw, s) ==
    \E i \in 1..Len(s) :
        /\ MatchAt(s, i, kw)
        /\ WordBoundary(s, i - 1)
        /\ WordBoundary(s, i + Len(kw) - 1)

\* index of the last occurrence of the character c in s, 0 when there is none
LastIndexOf(s, c) ==
    IF InStr(c, s)
    THEN CHOOSE i \in 1..Len(s) :
            Ch(s, i) = c /\ \A j \in (i + 1)..Len(s) : Ch(s, j) # c
    ELSE 0

\* os.path.basename
basename(p) == SubSeq(p, LastIndexOf(p, "/") + 1, Len(p))

\* os.path.splitext(p)[0]
splitext_root(p) ==
    LET sepIndex == LastIndexOf(p, "/")
        dotIndex == LastIndexOf(p, ".")
    IN  IF /\ dotIndex > sepIndex
           /\ \E k \in (sepIndex + 1)..(dotIndex - 1) : Ch(p, k) # "."
        THEN SubSeq(p, 1, dotIndex - 1)
        ELSE p

\* f.lower().endswith('.pdf')
is_pdf(f) == LET l == lower(f) IN MatchAt(l, Len(l) - 3, ".pdf")

(***************************************************************************)
(* Fractions.                                                              *)
(***************************************************************************)
Frac(n, d) == [num |-> n, den |-> d]
FracGt(a, b) == a.num * b.den > b.num * a.den
FracEq(a, b) == a.num * b.den = b.num * a.den
Max(a, b) == IF a >= b THEN a ELSE b

(***************************************************************************)
(* Keyword classifiers.                                                    *)
(***************************************************************************)
solution_keywords ==
    << "solution", "solutions", "soln", "solns", "sol", "sols",
       "answer", "answers", "ans", "anss",
       "worked", "worked example", "worked examples",
       "key", "keys", "answer key", "answer keys",
       "suggested solutions", "suggested solution",
       "tutor", "teacher", "teachers", "tutors" >>

question_keywords ==
    << "question", "questions", "qn", "qns",
       "problem", "problems", "exercise", "exercises",
       "worksheet", "worksheets", "assignment", "assignments",
       "practice", "test", "exam", "quiz", "tutorial",
       "student", "package", "revision" >>

quick_solution_keywords ==
    << "solution", "solutions", "soln", "solns", "sol", "sols",
       "answer", "answers", "ans", "anss",
       "worked", "worked example", "worked examples",
       "key", "keys", "answer key", "answer keys" >>

quick_question_keywords ==
    << "question", "questions", "qn", "qns",
       "problem", "problems", "exercise", "exercises",
       "worksheet", "worksheets", "assignment", "assignments",
       "practice", "test", "exam", "quiz" >>

\* streamlined_education_pdf_to_json / organize_documents: whole-word search
is_solution_file(filename) ==
    \E k \in 1..Len(solution_keywords) :
        search_word(solution_keywords[k], lower(filename))

is_question_file(filename) ==
    \E k \in 1..Len(question_keywords) :
        search_word(question_keywords[k], lower(filename))

(***************************************************************************)
(* organize_documents: is_note_file and classify_document.                 *)
(***************************************************************************)
note_keywords ==
    << "note", "notes", "lecture", "lectures", "summary", "summaries",
       "chapter", "chapters", "topic", "topics", "theory", "concept",
       "learning package", "guide", "handbook", "manual", "reference",
       "cheat sheet", "formula", "definition", "explanation" >>

is_note_file(filename) ==
    \E k \in 1..Len(note_keywords) :
        search_word(note_keywords[k], lower(filename))

\* re.search(first + '.*' + later, s) for literals first and later
search_then(s, first, later) ==
    \E i \in 1..Len(s) :
        /\ MatchAt(s, i, first)
        /\ \E j \in (i + Len(first))..Len(s) : MatchAt(s, j, later)

\* re.search(r'(bmq|apq).*sol', s)
paper_code_with_sol(s) ==
    search_then(s, "bmq", "sol") \/ search_then(s, "apq", "sol")

\* re.search(r'(bmq|apq)(?!.*sol)', s)
paper_code_without_sol(s) ==
    \E i \in 1..Len(s) :
        /\ MatchAt(s, i, "bmq") \/ MatchAt(s, i, "apq")
        /\ ~\E j \in (i + 3)..Len(s) : MatchAt(s, j, "sol")

\* re.search(r'(ch|chapter|topic).*\d', s)
chapter_with_number(s) ==
    \E d \in 1..Len(DigitChars) :
        \/ search_then(s, "ch", Ch(DigitChars, d))
        \/ search_then(s, "chapter", Ch(DigitChars, d))
        \/ search_then(s, "topic", Ch(DigitChars, d))

\* re.search(r'(tutor|teacher|lecturer)', s)
names_a_teacher(s) ==
    Contains(s, "tutor") \/ Contains(s, "teacher") \/ Contains(s, "lecturer")

\* the else branch of classify_document: the patterns of file names
classify_by_pattern(lower_filename) ==
    IF paper_code_with_sol(lower_filename) THEN "solution"
    ELSE IF paper_code_without_sol(lower_filename) THEN "question_paper"
    ELSE IF chapter_with_number(lower_filename) THEN "standalone_note"
    ELSE IF names_a_teacher(lower_filename) THEN "notes_with_solutions"
    ELSE "unknown"

\* classify_document with the question and note branches before the others
classify_by_flags_question_first(is_solution, is_question, is_note, filename) ==
    IF is_question /\ is_note THEN "notes_with_questions"
    ELSE IF is_question THEN "question_paper"
    ELSE IF is_solution /\ is_note THEN "notes_with_solutions"
    ELSE IF is_solution THEN "solution"
    ELSE IF is_note THEN "standalone_note"
    ELSE classify_by_pattern(lower(filename))

\* the if / elif chain of classify_document on its three flags
classify_by_flags(is_solution, is_question, is_note, filename) ==
    IF is_solution /\ is_question THEN "combined_question_solution"
    ELSE IF is_solution /\ is_note THEN "notes_with_solutions"
    ELSE IF is_question /\ is_note THEN "notes_with_questions"
    ELSE IF is_solution THEN "solution"
    ELSE IF is_question THEN "question_paper"
    ELSE IF is_note THEN "standalone_note"
    ELSE classify_by_pattern(lower(filename))

\* classify_document with the solution and question flags exchanged
classify_document_flags_exchanged(filename) ==
    classify_by_flags(is_question_file(filename), is_solution_file(filename),
                      is_note_file(filename), filename)

classify_document(filename) ==
    classify_by_flags(is_solution_file(filename), is_question_file(filename),
                      is_note_file(filename), filename)

\* quick_organize_files: substring test
quick_is_solution_file(filename) ==
    \E k \in 1..Len(quick_solution_keywords) :
        Contains(lower(filename), quick_solution_keywords[k])

quick_is_question_file(filename) ==
    \E k \in 1..Len(quick_question_keywords) :
        Contains(lower(filename), quick_question_keywords[k])

(***************************************************************************)
(* calculate_filename_similarity.                                          *)
(***************************************************************************)
similarity_solution_indicators ==
    << "solution", "solutions", "soln", "solns", "sol", "sols",
       "answer", "answers", "ans", "anss" >>

similarity_question_indicators ==
    << "question", "questions", "qn", "qns",
       "problem", "problems", "exercise", "exercises" >>

\* (_|\s|-)
IsDelim(c) == c = "_" \/ IsSpace(c) \/ c = "-"

\* s?(?:_|\s|-|$) tried at index p: the index after the match, 0 for no match
TailEnd(s, p) ==
    IF p <= Len(s) /\ Ch(s, p) = "s" /\ p + 1 <= Len(s) /\ IsDelim(Ch(s, p + 1))
    THEN p + 2
    ELSE IF p <= Len(s) /\ Ch(s, p) = "s" /\ p + 1 > Len(s)
    THEN p + 1
    ELSE IF p <= Len(s) /\ IsDelim(Ch(s, p))
    THEN p + 1
    ELSE IF p > Len(s)
    THEN p
    ELSE 0

\* (_|\s|-|^) kw s?(?:_|\s|-|$) tried at index i: the index after the match,
\* 0 for no match
MatchEnd(s, i, kw) ==
    IF i <= Len(s) /\ IsDelim(Ch(s, i)) /\ MatchAt(s, i + 1, kw)
       /\ TailEnd(s, i + 1 + Len(kw)) # 0
    THEN TailEnd(s, i + 1 + Len(kw))
    ELSE IF i = 1 /\ MatchAt(s, 1, kw) /\ TailEnd(s, 1 + Len(kw)) # 0
    THEN TailEnd(s, 1 + Len(kw))
    ELSE 0

\* re.sub(r'(?i)(_|\s|-|^)' + kw + r's?(?:_|\s|-|$)', '', s), scanning from i
RECURSIVE strip_from(_, _, _)
strip_from(s, i, kw) ==
    IF i > Len(s) THEN ""
    ELSE LET e == MatchEnd(s, i, kw)
         IN  IF e # 0 THEN strip_from(s, e, kw)
             ELSE Ch(s, i) \o strip_from(s, i + 1, kw)

\* for keyword in kws: base = re.sub(..., '', base)
RECURSIVE strip_keywords(_, _, _)
strip_keywords(s, kws, k) ==
    IF k > Len(kws) THEN s
    ELSE strip_keywords(strip_from(s, 1, kws[k]), kws, k + 1)

\* set(re.findall(r'\w+', s))
Words(s) ==
    { SubSeq(s, i, j) : <<i, j>> \in
        { ij \in (1..Len(s)) \X (1..Len(s)) :
            /\ ij[1] <= ij[2]
            /\ \A k \in ij[1]..ij[2] : IsWordChar(Ch(s, k))
            /\ (ij[1] = 1 \/ ~IsWordChar(Ch(s, ij[1] - 1)))
            /\ (ij[2] = Len(s) \/ ~IsWordChar(Ch(s, ij[2] + 1))) } }

\* the base of a file name: extension, solution and question indicators removed
similarity_base(file) ==
    strip_keywords(
        strip_keywords(lower(splitext_root(file)), similarity_solution_indicators, 1),
        similarity_question_indicators, 1)

\* calculate_filename_similarity dividing by the words of the first name
calculate_filename_similarity_over_first(file1, file2) ==
    LET words1 == Words(similarity_base(file1))
        words2 == Words(similarity_base(file2))
    IN  IF words1 = {} \/ words2 = {}
        THEN Frac(0, 1)
        ELSE Frac(Cardinality(words1 \cap words2), Cardinality(words1))

\* calculate_filename_similarity dividing by the words of both names
calculate_filename_similarity_over_sum(file1, file2) ==
    LET words1 == Words(similarity_base(file1))
        words2 == Words(similarity_base(file2))
    IN  IF words1 = {} \/ words2 = {}
        THEN Frac(0, 1)
        ELSE Frac(Cardinality(words1 \cap words2),
                  Cardinality(words1) + Cardinality(words2))

calculate_filename_similarity(file1, file2) ==
    LET words1 == Words(similarity_base(file1))
        words2 == Words(similarity_base(file2))
    IN  IF words1 = {} \/ words2 = {}
        THEN Frac(0, 1)
        ELSE Frac(Cardinality(words1 \cap words2),
                  Max(Cardinality(words1), Cardinality(words2)))

(***************************************************************************)
(* organize_question_solution_pairs: is_solution_file, extract_base_name.  *)
(***************************************************************************)
group_solution_keywords ==
    << "solution", "solutions", "soln", "solns", "sol", "sols",
       "answer", "answers", "ans", "anss",
       "worked", "worked example", "worked examples",
       "key", "keys", "answer key", "answer keys" >>

\* substring search, as in quick_organize_files
group_is_solution_file(filename) ==
    \E k \in 1..Len(group_solution_keywords) :
        Contains(lower(filename), group_solution_keywords[k])

base_solution_indicators ==
    << "solution", "solutions", "soln", "solns", "sol", "sols",
       "answer", "answers", "ans", "anss", "worked", "key", "keys" >>

base_prefixes ==
    << "chapter", "chp", "ch", "topic", "section", "sec", "part",
       "tutorial", "tut" >>

base_suffixes ==
    << "revision", "rev", "practice", "prac", "exercise", "ex",
       "worksheet", "sheet" >>

\* (?:_|\s|-|$) tried at index p: the index after the match, 0 for no match
TailPlain(s, p) ==
    IF p <= Len(s) /\ IsDelim(Ch(s, p)) THEN p + 1
    ELSE IF p > Len(s) THEN p
    ELSE 0

\* the index after the run of \s that starts at p
RECURSIVE SkipSpaces(_, _)
SkipSpaces(s, p) ==
    IF p <= Len(s) /\ IsSpace(Ch(s, p)) THEN SkipSpaces(s, p + 1) ELSE p

\* the index after the run of \d that starts at p
RECURSIVE SkipDigits(_, _)
SkipDigits(s, p) ==
    IF p <= Len(s) /\ InStr(Ch(s, p), DigitChars) THEN SkipDigits(s, p + 1) ELSE p

\* (?:\s*\d+)?(?:_|\s|-|$) tried at index p
TailDigits(s, p) ==
    LET w == SkipSpaces(s, p)
        d == SkipDigits(s, w)
    IN  IF d > w /\ TailPlain(s, d) # 0 THEN TailPlain(s, d) ELSE TailPlain(s, p)

\* the tail of one of the three keyword patterns of extract_base_name
TailOf(kind, s, p) ==
    CASE kind = "plural" -> TailEnd(s, p)
      [] kind = "number" -> TailDigits(s, p)
      [] OTHER           -> TailPlain(s, p)

\* where the keyword starts when (_|\s|-|^) is tried at i (0: no match);
\* from_start tells whether the pattern has the alternative ^
LeadEnd(s, i, from_start) ==
    IF i <= Len(s) /\ IsDelim(Ch(s, i)) THEN i + 1
    ELSE IF from_start /\ i = 1 THEN 1
    ELSE 0

\* lead (kw1|kw2|...) tail tried at index i of the lower-cased ls: the index
\* after the match of the first alternative that matches, 0 for no match
AltMatchEnd(ls, i, kws, from_start, kind) ==
    LET start == LeadEnd(ls, i, from_start)
        hits  == { k \in 1..Len(kws) :
                     /\ start # 0
                     /\ MatchAt(ls, start, kws[k])
                     /\ TailOf(kind, ls, start + Len(kws[k])) # 0 }
    IN  IF hits = {} THEN 0
        ELSE LET k == CHOOSE h \in hits : \A h2 \in hits : h <= h2
             IN  TailOf(kind, ls, start + Len(kws[k]))

\* re.sub(r'(?i)...', '', s) for a keyword pattern, scanning from i
RECURSIVE strip_alt_from(_, _, _, _, _)
strip_alt_from(s, i, kws, from_start, kind) ==
    IF i > Len(s) THEN ""
    ELSE LET e == AltMatchEnd(lower(s), i, kws, from_start, kind)
         IN  IF e # 0 THEN strip_alt_from(s, e, kws, from_start, kind)
             ELSE Ch(s, i) \o strip_alt_from(s, i + 1, kws, from_start, kind)

\* (?:_|\s|-|^)20\d\d(?:_|\s|-|$) tried at index i
YearMatchEnd(s, i) ==
    LET start == LeadEnd(s, i, TRUE)
    IN  IF /\ start # 0
           /\ MatchAt(s, start, "20")
           /\ start + 3 <= Len(s)
           /\ InStr(Ch(s, start + 2), DigitChars)
           /\ InStr(Ch(s, start + 3), DigitChars)
        THEN TailPlain(s, start + 4)
        ELSE 0

\* re.sub(r'(?:_|\s|-|^)20\d\d(?:_|\s|-|$)', '', s), scanning from i
RECURSIVE strip_year_from(_, _)
strip_year_from(s, i) ==
    IF i > Len(s) THEN ""
    ELSE LET e == YearMatchEnd(s, i)
         IN  IF e # 0 THEN strip_year_from(s, e)
             ELSE Ch(s, i) \o strip_year_from(s, i + 1)

\* re.sub(r'[^\w\s]', ' ', s), from index i on
RECURSIVE blank_specials_from(_, _)
blank_specials_from(s, i) ==
    IF i > Len(s) THEN ""
    ELSE (IF IsWordChar(Ch(s, i)) \/ IsSpace(Ch(s, i)) THEN Ch(s, i) ELSE " ")
         \o blank_specials_from(s, i + 1)

blank_specials(s) == blank_specials_from(s, 1)

\* re.sub(r'\s+', ' ', s), from index i on
RECURSIVE collapse_spaces_from(_, _)
collapse_spaces_from(s, i) ==
    IF i > Len(s) THEN ""
    ELSE IF IsSpace(Ch(s, i))
    THEN " " \o collapse_spaces_from(s, SkipSpaces(s, i))
    ELSE Ch(s, i) \o collapse_spaces_from(s, i + 1)

collapse_spaces(s) == collapse_spaces_from(s, 1)

\* str.strip()
strip(s) ==
    LET keep == { i \in 1..Len(s) : ~IsSpace(Ch(s, i)) }
    IN  IF keep = {} THEN ""
        ELSE SubSeq(s, CHOOSE i \in keep : \A j \in keep : i <= j,
                       CHOOSE i \in keep : \A j \in keep : i >= j)

extract_base_name(filename) ==
    LET base1 == strip_alt_from(splitext_root(filename), 1,
                                base_solution_indicators, TRUE, "plural")
        base2 == strip_year_from(base1, 1)
        base3 == strip_alt_from(base2, 1, base_prefixes, TRUE, "number")
        base4 == strip_alt_from(base3, 1, base_suffixes, FALSE, "plural")
    IN  strip(collapse_spaces(blank_specials(base4)))

\* set(s.split())
SplitWords(s) ==
    { SubSeq(s, ij[1], ij[2]) : ij \in
        { ij \in (1..Len(s)) \X (1..Len(s)) :
            /\ ij[1] <= ij[2]
            /\ \A k \in ij[1]..ij[2] : ~IsSpace(Ch(s, k))
            /\ (ij[1] = 1 \/ IsSpace(Ch(s, ij[1] - 1)))
            /\ (ij[2] = Len(s) \/ IsSpace(Ch(s, ij[2] + 1))) } }

\* the score of organize_question_solution_pairs between two base names
base_score(q_base, s_base) ==
    LET q_words == SplitWords(lower(q_base))
        s_words == SplitWords(lower(s_base))
        most    == Max(Cardinality(q_words), Cardinality(s_words))
    IN  IF most > 0 THEN Frac(Cardinality(q_words \cap s_words), most)
        ELSE Frac(0, 1)

(***************************************************************************)
(* streamlined_education_pdf_to_json: the values of python that the JSON   *)
(* recovery handles, and json.loads.  A value is a record tagged by t; a   *)
(* dict is a sequence of entries [key, value] in insertion order.  The     *)
(* character U+0060 cannot be written in a TLA+ string: Tick stands for it.*)
(***************************************************************************)
Tick == "~"
Fence == Tick \o Tick \o Tick

JNone == [t |-> "none"]
JBool(b) == [t |-> "bool", b |-> b]
JNum(text) == [t |-> "num", text |-> text]
JStr(s) == [t |-> "str", s |-> s]
JList(items) == [t |-> "list", items |-> items]
JDict(entries) == [t |-> "dict", entries |-> entries]

\* s[i], "" outside the string
At(s, i) == IF i >= 1 /\ i <= Len(s) THEN SubSeq(s, i, i) ELSE ""

\* s[i:j] with the indices of the model: the characters i .. j-1
Slice(s, i, j) == IF j > i THEN SubSeq(s, i, j - 1) ELSE ""

\* s.find(sub, start): the index of the first occurrence at or after start,
\* 0 when there is none
Find(s, sub, start) ==
    LET hits == { i \in start..(Len(s) - Len(sub) + 1) : MatchAt(s, i, sub) }
    IN  IF hits = {} THEN 0 ELSE CHOOSE i \in hits : \A j \in hits : i <= j

\* s.rfind(sub)
RFind(s, sub) ==
    LET hits == { i \in 1..(Len(s) - Len(sub) + 1) : MatchAt(s, i, sub) }
    IN  IF hits = {} THEN 0 ELSE CHOOSE i \in hits : \A j \in hits : i >= j

\* the whitespace json.loads skips
RECURSIVE SkipJsonSpace(_, _)
SkipJsonSpace(s, i) ==
    IF At(s, i) \in {" ", "\t", "\n", "\r"} THEN SkipJsonSpace(s, i + 1) ELSE i

JsonFail == [ok |-> FALSE, val |-> JNone, next |-> 0]
JsonOk(v, n) == [ok |-> TRUE, val |-> v, next |-> n]

HexChars == "0123456789abcdefABCDEF"

\* the characters of a JSON string from index i on, decoded after acc, up to
\* the closing quote; \b and \uXXXX decode to characters that a TLA+ string
\* cannot hold and are written "?"
RECURSIVE json_string_from(_, _, _)
json_string_from(s, i, acc) ==
    LET c == At(s, i)
        e == At(s, i + 1)
    IN  IF c = "" \/ c \in {"\n", "\t", "\r", "\f"} THEN JsonFail
        ELSE IF c = "\"" THEN JsonOk(JStr(acc), i + 1)
        ELSE IF c # "\\" THEN json_string_from(s, i + 1, acc \o c)
        ELSE IF e \in {"\"", "\\", "/"} THEN json_string_from(s, i + 2, acc \o e)
        ELSE IF e = "n" THEN json_string_from(s, i + 2, acc \o "\n")
        ELSE IF e = "t" THEN json_string_from(s, i + 2, acc \o "\t")
        ELSE IF e = "r" THEN json_string_from(s, i + 2, acc \o "\r")
        ELSE IF e = "f" THEN json_string_from(s, i + 2, acc \o "\f")
        ELSE IF e = "b" THEN json_string_from(s, i + 2, acc \o "?")
        ELSE IF e = "u" /\ \A k \in 2..5 : At(s, i + k) # ""
                                           /\ InStr(At(s, i + k), HexChars)
        THEN json_string_from(s, i + 6, acc \o "?")
        ELSE JsonFail

\* (0|[1-9]\d*) at index a: the index after it, 0 for no match
number_int_end(s, a) ==
    IF At(s, a) = "0" THEN a + 1
    ELSE IF At(s, a) # "" /\ InStr(At(s, a), "123456789") THEN SkipDigits(s, a)
    ELSE 0

\* the index after (\.\d+)? at index b, where the integer part ends
number_frac_end(s, b) ==
    IF b # 0 /\ At(s, b) = "." /\ SkipDigits(s, b + 1) > b + 1
    THEN SkipDigits(s, b + 1)
    ELSE b

\* the index after ([eE][+-]?\d+)? at index c, where the fraction ends
number_exp_end(s, c) ==
    IF /\ At(s, c) \in {"e", "E"}
       /\ At(s, c + 1) \in {"+", "-"}
       /\ SkipDigits(s, c + 2) > c + 2
    THEN SkipDigits(s, c + 2)
    ELSE IF At(s, c) \in {"e", "E"} /\ SkipDigits(s, c + 1) > c + 1
    THEN SkipDigits(s, c + 1)
    ELSE c

\* -?(0|[1-9]\d*)(\.\d+)?([eE][+-]?\d+)? at index i: the index after it, 0 for
\* no match
json_number_end(s, i) ==
    number_exp_end(s, number_frac_end(s,
        number_int_end(s, IF At(s, i) = "-" THEN i + 1 ELSE i)))

\* the number that starts at index i and ends before index e
json_number(s, i, e) ==
    IF e # 0 THEN JsonOk(JNum(Slice(s, i, e)), e) ELSE JsonFail

json_literals ==
    << <<"null", JNone>>, <<"true", JBool(TRUE)>>, <<"false", JBool(FALSE)>>,
       <<"NaN", JNum("NaN")>>, <<"Infinity", JNum("Infinity")>>,
       <<"-Infinity", JNum("-Infinity")>> >>

\* d[k] = v on a dict of the model
entries_put(d, k, v) ==
    IF \E i \in 1..Len(d) : d[i].key = k
    THEN [i \in 1..Len(d) |-> IF d[i].key = k THEN [key |-> k, value |-> v]
                              ELSE d[i]]
    ELSE Append(d, [key |-> k, value |-> v])

RECURSIVE json_value(_, _)
RECURSIVE json_members(_, _, _)
RECURSIVE json_elements(_, _, _)

\* the value that starts at index i
json_value(s, i) ==
    LET c == At(s, i)
        lits == { k \in 1..Len(json_literals) : MatchAt(s, i, json_literals[k][1]) }
    IN  IF c = "\"" THEN json_string_from(s, i + 1, "")
        ELSE IF c = "{"
        THEN (IF At(s, SkipJsonSpace(s, i + 1)) = "}"
              THEN JsonOk(JDict(<<>>), SkipJsonSpace(s, i + 1) + 1)
              ELSE json_members(s, SkipJsonSpace(s, i + 1), <<>>))
        ELSE IF c = "["
        THEN (IF At(s, SkipJsonSpace(s, i + 1)) = "]"
              THEN JsonOk(JList(<<>>), SkipJsonSpace(s, i + 1) + 1)
              ELSE json_elements(s, SkipJsonSpace(s, i + 1), <<>>))
        ELSE IF lits # {}
        THEN LET k == CHOOSE k \in lits : TRUE
             IN  JsonOk(json_literals[k][2], i + Len(json_literals[k][1]))
        ELSE json_number(s, i, json_number_end(s, i))

\* the members of an object from the key at index i on, after the entries acc
json_members(s, i, acc) ==
    IF At(s, i) # "\"" THEN JsonFail
    ELSE LET key == json_string_from(s, i + 1, "")
             colon == SkipJsonSpace(s, key.next)
             val == json_value(s, SkipJsonSpace(s, colon + 1))
             sep == SkipJsonSpace(s, val.next)
         IN  IF ~key.ok \/ At(s, colon) # ":" THEN JsonFail
             ELSE IF ~val.ok THEN JsonFail
             ELSE IF At(s, sep) = ","
             THEN json_members(s, SkipJsonSpace(s, sep + 1),
                               entries_put(acc, key.val.s, val.val))
             ELSE IF At(s, sep) = "}"
             THEN JsonOk(JDict(entries_put(acc, key.val.s, val.val)), sep + 1)
             ELSE JsonFail

\* the elements of an array from index i on, after the items acc
json_elements(s, i, acc) ==
    LET val == json_value(s, i)
        sep == SkipJsonSpace(s, val.next)
    IN  IF ~val.ok THEN JsonFail
        ELSE IF At(s, sep) = ","
        THEN json_elements(s, SkipJsonSpace(s, sep + 1), Append(acc, val.val))
        ELSE IF At(s, sep) = "]"
        THEN JsonOk(JList(Append(acc, val.val)), sep + 1)
        ELSE JsonFail

\* the document s read as the value r: nothing but whitespace may follow
json_document(s, r) ==
    IF r.ok /\ SkipJsonSpace(s, r.next) > Len(s)
    THEN [ok |-> TRUE, val |-> r.val]
    ELSE [ok |-> FALSE, val |-> JNone]

\* json.loads(s): ok is FALSE for json.JSONDecodeError
json_loads(s) == json_document(s, json_value(s, SkipJsonSpace(s, 1)))

(***************************************************************************)
(* extract_json_from_text.                                                 *)
(***************************************************************************)
\* python truth value of a value of the model
Falsy(v) ==
    \/ v.t = "none"
    \/ v.t = "bool" /\ ~v.b
    \/ v.t = "num" /\ \A i \in 1..Len(v.text) :
                         \/ At(v.text, i) \in {"0", "-", "."}
                         \/ \E k \in 1..(i - 1) : At(v.text, k) \in {"e", "E"}
                         \/ /\ At(v.text, i) \in {"e", "E"}
                            /\ i > 1
    \/ v.t = "str" /\ v.s = ""
    \/ v.t = "list" /\ v.items = <<>>
    \/ v.t = "dict" /\ v.entries = <<>>

\* text between the first fence with json and the next fence, parsed
fenced_json(text) ==
    LET json_start == Find(text, Fence \o "json", 1)
        json_end == Find(text, Fence, json_start + 7)
    IN  IF json_start # 0 /\ json_end # 0
        THEN json_loads(strip(Slice(text, json_start + 7, json_end)))
        ELSE [ok |-> FALSE, val |-> JNone]

\* text between a tick with an opening brace and a closing brace with a tick
ticked_json(text) ==
    LET json_start == Find(text, Tick \o "{", 1)
        json_end == Find(text, "}" \o Tick, json_start + 1)
    IN  IF json_start # 0 /\ json_end # 0
        THEN json_loads(strip(Slice(text, json_start + 1, json_end + 1)))
        ELSE [ok |-> FALSE, val |-> JNone]

\* text from the first opening brace to the last closing brace
braced_json(text) ==
    LET first_brace == Find(text, "{", 1)
        last_brace == RFind(text, "}")
    IN  IF first_brace # 0 /\ last_brace # 0 /\ first_brace < last_brace
        THEN json_loads(Slice(text, first_brace, last_brace + 1))
        ELSE [ok |-> FALSE, val |-> JNone]

\* return json.loads(...) in a try block: the value parsed, or what the code
\* after the except clause gives
parsed_or(r, otherwise) == IF r.ok THEN r.val ELSE otherwise

\* the value returned for the str text: the parsed JSON, or None
extract_json_from_text(text) ==
    IF text = "" THEN JNone
    ELSE parsed_or(fenced_json(text),
                   parsed_or(ticked_json(text),
                             parsed_or(braced_json(text), JNone)))

(***************************************************************************)
(* fix_json_string.                                                        *)
(***************************************************************************)
\* re.sub(r'<think>.*?</think>', '', s, flags=re.DOTALL), from index i on
RECURSIVE remove_think_from(_, _)
remove_think_from(s, i) ==
    IF i > Len(s) THEN ""
    ELSE IF MatchAt(s, i, "<think>") /\ Find(s, "</think>", i + 7) # 0
    THEN remove_think_from(s, Find(s, "</think>", i + 7) + 8)
    ELSE At(s, i) \o remove_think_from(s, i + 1)

\* where the block of a fence at index i starts: after (?:json)?\s*
block_start(s, i) ==
    SkipSpaces(s, IF MatchAt(s, i + 3, "json") THEN i + 7 ELSE i + 3)

\* re.findall(r'```(?:json)?\s*([\s\S]*?)```', s)[0] when there is a block,
\* s otherwise
first_code_block(s) ==
    LET opens == { i \in 1..Len(s) :
                     /\ MatchAt(s, i, Fence)
                     /\ Find(s, Fence, block_start(s, i)) # 0 }
    IN  IF opens = {} THEN s
        ELSE LET i == CHOOSE o \in opens : \A o2 \in opens : o <= o2
             IN  Slice(s, block_start(s, i), Find(s, Fence, block_start(s, i)))

\* s.replace('\\\\', '\\'): two backslashes become one, from index i on
RECURSIVE halve_backslashes_from(_, _)
halve_backslashes_from(s, i) ==
    IF i > Len(s) THEN ""
    ELSE IF MatchAt(s, i, "\\\\") THEN "\\" \o halve_backslashes_from(s, i + 2)
    ELSE At(s, i) \o halve_backslashes_from(s, i + 1)

\* the index after the run of \w that starts at p
RECURSIVE SkipWord(_, _)
SkipWord(s, p) ==
    IF p <= Len(s) /\ IsWordChar(Ch(s, p)) THEN SkipWord(s, p + 1) ELSE p

\* \s*\n\s* tried at index p: the index after the run of \s, 0 when the run
\* holds no newline
NewlineGap(s, p) ==
    IF \E k \in p..(SkipSpaces(s, p) - 1) : At(s, k) = "\n"
    THEN SkipSpaces(s, p)
    ELSE 0

\* (\w+"|") tried at index i: the index after it, 0 for no match
ElementEnd(s, i) ==
    IF At(s, i) = "\"" THEN i + 1
    ELSE IF SkipWord(s, i) > i /\ At(s, SkipWord(s, i)) = "\""
    THEN SkipWord(s, i) + 1
    ELSE 0

\* ("|\w+) tried at index p: the index after it, 0 for no match
NextElementEnd(s, p) ==
    IF At(s, p) = "\"" THEN p + 1
    ELSE IF SkipWord(s, p) > p THEN SkipWord(s, p)
    ELSE 0

\* re.sub(r'(\w+"|")\s*\n\s*("|\w+)', r'\1,\n\2', s), from index i on
RECURSIVE fix_array_commas_from(_, _)
fix_array_commas_from(s, i) ==
    IF i > Len(s) THEN ""
    ELSE LET a == ElementEnd(s, i)
             g == IF a = 0 THEN 0 ELSE NewlineGap(s, a)
             b == IF g = 0 THEN 0 ELSE NextElementEnd(s, g)
         IN  IF b # 0
             THEN Slice(s, i, a) \o ",\n" \o Slice(s, g, b)
                  \o fix_array_commas_from(s, b)
             ELSE At(s, i) \o fix_array_commas_from(s, i + 1)

\* (true|false|null|"[^"]*"|[0-9]+) tried at index i: the index after it
PropertyValueEnd(s, i) ==
    IF MatchAt(s, i, "true") THEN i + 4
    ELSE IF MatchAt(s, i, "false") THEN i + 5
    ELSE IF MatchAt(s, i, "null") THEN i + 4
    ELSE IF At(s, i) = "\"" /\ Find(s, "\"", i + 1) # 0
    THEN Find(s, "\"", i + 1) + 1
    ELSE IF SkipDigits(s, i) > i THEN SkipDigits(s, i)
    ELSE 0

\* re.sub(r'(true|false|null|"[^"]*"|[0-9]+)\s*\n\s*(")', r'\1,\n\2', s),
\* from index i on
RECURSIVE fix_property_commas_from(_, _)
fix_property_commas_from(s, i) ==
    IF i > Len(s) THEN ""
    ELSE LET a == PropertyValueEnd(s, i)
             g == IF a = 0 THEN 0 ELSE NewlineGap(s, a)
         IN  IF g # 0 /\ At(s, g) = "\""
             THEN Slice(s, i, a) \o ",\n\""
                  \o fix_property_commas_from(s, g + 1)
             ELSE At(s, i) \o fix_property_commas_from(s, i + 1)

\* re.sub(r',\s*(\]|\})', r'\1', s), from index i on
RECURSIVE drop_trailing_commas_from(_, _)
drop_trailing_commas_from(s, i) ==
    IF i > Len(s) THEN ""
    ELSE IF At(s, i) = "," /\ At(s, SkipSpaces(s, i + 1)) \in {"]", "}"}
    THEN At(s, SkipSpaces(s, i + 1))
         \o drop_trailing_commas_from(s, SkipSpaces(s, i + 1) + 1)
    ELSE At(s, i) \o drop_trailing_commas_from(s, i + 1)

\* the index after the run of [a-zA-Z0-9_] that starts at p
IdentifierEnd(s, p) ==
    IF At(s, p) # "" /\ IsWordChar(At(s, p)) /\ ~InStr(At(s, p), DigitChars)
    THEN SkipWord(s, p)
    ELSE 0

\* re.sub(r'([{,]\s*)([a-zA-Z_][a-zA-Z0-9_]*)\s*:', r'\1"\2":', s), from i on
RECURSIVE quote_property_names_from(_, _)
quote_property_names_from(s, i) ==
    IF i > Len(s) THEN ""
    ELSE LET p == SkipSpaces(s, i + 1)
             w == IF At(s, i) \in {"{", ","} THEN IdentifierEnd(s, p) ELSE 0
             c == IF w = 0 THEN 0 ELSE SkipSpaces(s, w)
         IN  IF w # 0 /\ At(s, c) = ":"
             THEN Slice(s, i, p) \o "\"" \o Slice(s, p, w) \o "\":"
                  \o quote_property_names_from(s, c + 1)
             ELSE At(s, i) \o quote_property_names_from(s, i + 1)

\* re.sub(r'([^\\])\\([^"\\/bfnrtu])', r'\1\\\\\2', s), from index i on
RECURSIVE escape_backslashes_from(_, _)
escape_backslashes_from(s, i) ==
    IF i > Len(s) THEN ""
    ELSE IF /\ At(s, i) # "\\"
            /\ At(s, i + 1) = "\\"
            /\ At(s, i + 2) # ""
            /\ ~InStr(At(s, i + 2), "\"\\/bfnrtu")
    THEN At(s, i) \o "\\\\" \o At(s, i + 2) \o escape_backslashes_from(s, i + 3)
    ELSE At(s, i) \o escape_backslashes_from(s, i + 1)

\* the last lines: strip, then an opening and a closing brace if missing
ensure_braces(s) ==
    LET opened == IF At(strip(s), 1) = "{" THEN strip(s) ELSE "{" \o strip(s)
    IN  IF At(opened, Len(opened)) = "}" THEN opened ELSE opened \o "}"

\* the repairs of fix_json_string on a str, in the order of the source
repair_json_text(s) ==
    ensure_braces(
      escape_backslashes_from(
        quote_property_names_from(
          drop_trailing_commas_from(
            fix_property_commas_from(
              fix_array_commas_from(
                halve_backslashes_from(
                  first_code_block(remove_think_from(s, 1)), 1), 1), 1), 1),
          1), 1))

\* fix_json_string(json_str) for the value that process_with_deepseek hands
\* over: raises is TRUE for the TypeError of re.sub on a value that is no str
fix_json_string(json_str) ==
    IF Falsy(json_str) THEN [raises |-> FALSE, text |-> "{}"]
    ELSE IF json_str.t # "str" THEN [raises |-> TRUE, text |-> ""]
    ELSE [raises |-> FALSE, text |-> repair_json_text(json_str.s)]

(***************************************************************************)
(* create_fallback_json.                                                   *)
(***************************************************************************)
summary_length == 200
max_concepts == 5
max_questions == 3

NoMatch == [end |-> 0, val |-> JNone]

concept(concept_name, definition) ==
    JDict(<< [key |-> "concept_name", value |-> JStr(concept_name)],
             [key |-> "definition", value |-> JStr(definition)] >>)

\* the index after the run of [a-zA-Z\s] that starts at p
SkipTermChars(s, p) ==
    LET stops == { k \in p..Len(s) :
                     /\ ~InStr(Ch(s, k), UpperChars)
                     /\ ~InStr(Ch(s, k), LowerChars)
                     /\ ~IsSpace(Ch(s, k)) }
    IN  IF stops # {} THEN CHOOSE k \in stops : \A j \in stops : k <= j
        ELSE IF p > Len(s) THEN p
        ELSE Len(s) + 1

\* where ([^\.]+\.) starts when it follows a run of optional characters
\* from..(stop - 1) and the first full stop is at dot: the run gives back one
\* character when nothing else is left before the full stop; 0 for no match
SentenceStart(from, stop, dot, least) ==
    IF dot = 0 THEN 0
    ELSE IF stop < dot THEN stop
    ELSE IF stop - from > least THEN dot - 1
    ELSE 0

\* ([A-Z][a-zA-Z\s]+):\s*([^\.]+\.) tried at index i
colon_definition_at(s, i) ==
    LET r == SkipTermChars(s, i + 1)
        dot == Find(s, ".", r + 1)
        start == SentenceStart(r + 1, SkipSpaces(s, r + 1), dot, 0)
    IN  IF /\ InStr(At(s, i), UpperChars)
           /\ r > i + 1
           /\ At(s, r) = ":"
           /\ start # 0
        THEN [end |-> dot + 1,
              val |-> concept(strip(Slice(s, i, r)),
                              strip(Slice(s, start, dot + 1)))]
        ELSE NoMatch

\* ([A-Z][a-zA-Z\s]+)\s+is\s+([^\.]+\.) tried at index i
is_definition_at(s, i) ==
    LET r == SkipTermChars(s, i + 1)
        verbs == { w \in (i + 3)..(r - 1) :
                     /\ IsSpace(At(s, w - 1))
                     /\ MatchAt(s, w, "is")
                     /\ At(s, w + 2) # ""
                     /\ IsSpace(At(s, w + 2))
                     /\ SentenceStart(w + 2, SkipSpaces(s, w + 2),
                                      Find(s, ".", w + 3), 1) # 0 }
    IN  IF InStr(At(s, i), UpperChars) /\ verbs # {}
        THEN LET w == CHOOSE v \in verbs : \A v2 \in verbs : v >= v2
                 dot == Find(s, ".", w + 3)
                 start == SentenceStart(w + 2, SkipSpaces(s, w + 2), dot, 1)
             IN  [end |-> dot + 1,
                  val |-> concept(strip(Slice(s, i, w - 1)),
                                  strip(Slice(s, start, dot + 1)))]
        ELSE NoMatch

\* the index after the run of [:\s] that starts at p
RECURSIVE SkipColonSpace(_, _)
SkipColonSpace(s, p) ==
    IF p <= Len(s) /\ (Ch(s, p) = ":" \/ IsSpace(Ch(s, p)))
    THEN SkipColonSpace(s, p + 1)
    ELSE p

\* Definition[:\s]+([^\.]+\.) tried at index i
plain_definition_at(s, i) ==
    LET c == SkipColonSpace(s, i + 10)
        dot == Find(s, ".", i + 11)
        start == SentenceStart(i + 10, c, dot, 1)
    IN  IF MatchAt(s, i, "Definition") /\ c > i + 10 /\ start # 0
        THEN [end |-> dot + 1,
              val |-> concept("Definition", strip(Slice(s, start, dot + 1)))]
        ELSE NoMatch

\* the index after the run of characters outside stops that starts at p
SkipUntil(s, p, stops) ==
    LET hits == { k \in p..Len(s) : Ch(s, k) \in stops }
    IN  IF hits # {} THEN CHOOSE k \in hits : \A j \in hits : k <= j
        ELSE IF p > Len(s) THEN p
        ELSE Len(s) + 1

\* ([A-Za-z][^=\n]+)=([^\n]+) tried at index i
formula_at(s, i) ==
    LET r == SkipUntil(s, i + 1, {"=", "\n"})
        e == SkipUntil(s, r + 1, {"\n"})
    IN  IF /\ InStr(At(s, i), UpperChars) \/ InStr(At(s, i), LowerChars)
           /\ r > i + 1
           /\ At(s, r) = "="
           /\ e > r + 1
        THEN [end |-> e,
              val |-> JDict(<<
                 [key |-> "concept_name", value |-> JStr("Formula")],
                 [key |-> "definition", value |-> JStr("")],
                 [key |-> "formulas", value |-> JList(<<
                     JStr(strip(Slice(s, i, r)) \o " = "
                          \o strip(Slice(s, r + 1, e))) >>)] >>)]
        ELSE NoMatch

question(question_text) ==
    JDict(<< [key |-> "question_text", value |-> JStr(question_text)],
             [key |-> "difficulty_level", value |-> JStr("Medium")],
             [key |-> "solution", value |-> JStr("")] >>)

\* (\d+\.\s*[^\?]+\?) tried at index i
numbered_question_at(s, i) ==
    LET d == SkipDigits(s, i)
        mark == Find(s, "?", d + 1)
    IN  IF d > i /\ At(s, d) = "." /\ mark >= d + 2
        THEN [end |-> mark + 1, val |-> question(strip(Slice(s, i, mark + 1)))]
        ELSE NoMatch

\* (Question\s*\d+[^\.]+\.) tried at index i
titled_question_at(s, i) ==
    LET w == SkipSpaces(s, i + 8)
        d == SkipDigits(s, w)
        dot == Find(s, ".", d)
    IN  IF /\ MatchAt(s, i, "Question")
           /\ d > w
           /\ dot # 0
           /\ (dot > d \/ d - w >= 2)
        THEN [end |-> dot + 1, val |-> question(strip(Slice(s, i, dot + 1)))]
        ELSE NoMatch

pattern_at(pattern, s, i) ==
    CASE pattern = "colon"      -> colon_definition_at(s, i)
      [] pattern = "is"         -> is_definition_at(s, i)
      [] pattern = "definition" -> plain_definition_at(s, i)
      [] pattern = "formula"    -> formula_at(s, i)
      [] pattern = "numbered"   -> numbered_question_at(s, i)
      [] pattern = "titled"     -> titled_question_at(s, i)

\* the pattern tried at every index of s
matches(pattern, s) == [k \in 1..Len(s) |-> pattern_at(pattern, s, k)]

\* what the loop over re.findall(pattern, text) appends, for the matches m
\* that start at index i or later
RECURSIVE findall_from(_, _)
findall_from(m, i) ==
    LET hits == { k \in i..Len(m) : m[k].end # 0 }
    IN  IF hits = {} THEN <<>>
        ELSE LET k == CHOOSE k \in hits : \A j \in hits : k <= j
             IN  <<m[k].val>> \o findall_from(m, m[k].end)

\* the loops over the patterns of a list, one after the other
RECURSIVE scrape(_, _)
scrape(patterns, s) ==
    IF patterns = <<>> THEN <<>>
    ELSE findall_from(matches(Head(patterns), s), 1)
         \o scrape(Tail(patterns), s)

definition_patterns == <<"colon", "is", "definition", "formula">>
question_patterns == <<"numbered", "titled">>

\* seq without the slice [:n]
TakeAll(seq, n) == seq

\* seq[:n]
Take(seq, n) == SubSeq(seq, 1, IF Len(seq) < n THEN Len(seq) ELSE n)

\* text[:200] + "..." if len(text) > 200 else text
summary(s) ==
    IF Len(s) > summary_length
    THEN SubSeq(s, 1, summary_length) \o "..."
    ELSE s

create_fallback_json(s, md) ==
    JDict(<<
      [key |-> "metadata", value |-> md],
      [key |-> "content", value |-> JDict(<<
          [key |-> "summary", value |-> JStr(summary(s))],
          [key |-> "key_concepts",
           value |-> JList(Take(scrape(definition_patterns, s),
                                max_concepts))],
          [key |-> "practice_questions",
           value |-> JList(Take(scrape(question_patterns, s),
                                max_questions))] >>)],
      [key |-> "related_topics", value |-> JList(<<>>)],
      [key |-> "extraction_method", value |-> JStr("fallback")] >>)

(***************************************************************************)
(* Inputs of the pairing routines.                                         *)
(***************************************************************************)
Scripts == {"streamlined", "organize_documents", "quick_organize_files"}

\* directories of the model: the file list is any ordering of any part of one
Corpora ==
    { {"Paper1_Question.pdf", "Paper1_Solution.pdf", "Topic3_Notes.pdf"},
      {"2021_JC_Prelim_Qn.pdf", "2022_JC_Prelim_Ans.pdf", "Prelim Ans.PDF"},
      {"jc p1 alg sol.pdf", "jc p1 ans.pdf", "jc p2 alg qn.pdf",
       "jc p1 alg qn.pdf", "jc p1 alg question.pdf"},
      {"p9 sol.pdf", "qn b.pdf", "qn c.pdf", "p9 qn ans.pdf"},
      {"d/Paper1 Solution.pdf", "e/Paper1 Question.pdf", "Paper1 Answers.txt"} }

Catalogue == UNION Corpora

Orderings(S) ==
    { q \in [1..Cardinality(S) -> S] :
        \A i, j \in 1..Cardinality(S) : i # j => q[i] # q[j] }

FileLists ==
    UNION { UNION { Orderings(T) :
                      T \in { U \in SUBSET c : Cardinality(U) <= MaxFiles } } :
            c \in Corpora }

\* 0.6, 0.7 and 0.8 are the thresholds the scripts use; -0.5 is out of range
Thresholds == { Frac(-1, 2), Frac(3, 5), Frac(7, 10), Frac(4, 5) }

\* python None
None == "<None>"
Truthy(v) == v # None /\ v # ""

(***************************************************************************)
(* The classifiers and the similarity on the names of the model, computed  *)
(* once.                                                                   *)
(***************************************************************************)
Names == Catalogue \cup { basename(f) : f \in Catalogue }

\* (f @@ <<>> is f as an explicit table, so that each entry is computed once)
SolutionTable == [f \in Names |-> is_solution_file(f)] @@ <<>>
QuestionTable == [f \in Names |-> is_question_file(f)] @@ <<>>
QuickSolutionTable == [f \in Names |-> quick_is_solution_file(f)] @@ <<>>
QuickQuestionTable == [f \in Names |-> quick_is_question_file(f)] @@ <<>>
SimilarityTable ==
    [p \in Names \X Names |-> calculate_filename_similarity(p[1], p[2])] @@ <<>>
PdfTable == [f \in Names |-> is_pdf(f)] @@ <<>>

\* directories handed to organize_question_solution_pairs
GroupCorpora ==
    { {"Paper1_ans.pdf", "Paper1_sol.pdf", "Paper1.pdf", "notes.txt"},
      {"2021_Matrices.pdf", "2022-Matrices.pdf", "Matrices_solutions.pdf",
       "Topic3_Notes.pdf"},
      {"algebra vectors.pdf", "algebra vectors extra_sol.pdf",
       "vectors extra algebra ans.pdf", "Tut 4 - Practice.PDF"} }

GroupListings ==
    UNION { UNION { Orderings(T) :
                      T \in { U \in SUBSET c : Cardinality(U) <= MaxFiles } } :
            c \in GroupCorpora }

GroupNames == UNION GroupCorpora

GroupPdfTable == [f \in GroupNames |-> is_pdf(f)] @@ <<>>
GroupSolutionTable == [f \in GroupNames |-> group_is_solution_file(f)] @@ <<>>
BaseNameTable == [f \in GroupNames |-> extract_base_name(f)] @@ <<>>

\* the file name a script hands to its classifiers and to the similarity
name_of(sc, f) == IF sc = "streamlined" THEN basename(f) ELSE f

\* is_sol without the exclusion of the files that also match a question keyword
is_sol_without_exclusion(sc, f) ==
    IF sc = "quick_organize_files"
    THEN QuickSolutionTable[f]
    ELSE SolutionTable[name_of(sc, f)]

\* f is a solution file for the pairing of script sc
is_sol(sc, f) ==
    IF sc = "quick_organize_files"
    THEN QuickSolutionTable[f]
    ELSE SolutionTable[name_of(sc, f)] /\ ~QuestionTable[name_of(sc, f)]

\* f is a question file for the pairing of script sc
is_q(sc, f) ==
    IF sc = "quick_organize_files"
    THEN QuickQuestionTable[f]
    ELSE QuestionTable[name_of(sc, f)] /\ ~SolutionTable[name_of(sc, f)]

similarity(sc, f1, f2) == SimilarityTable[<<name_of(sc, f1), name_of(sc, f2)>>]

(***************************************************************************)
(* Inputs of process_with_deepseek.                                        *)
(***************************************************************************)
\* a well-formed object with metadata and content
ValidObject ==
    "{\"metadata\": {\"topic\": \"t\"}, \"content\": {\"summary\": \"s\"}}"

\* prose around a fenced block that holds ValidObject
FencedObject ==
    "Here is the JSON:\n" \o Fence \o "json\n" \o ValidObject \o "\n" \o Fence
    \o "\nHope this helps!"

\* an object without the comma between its two keys, after a string
MissingCommaAfterString ==
    "{\"title\": \"t\"\n\"content\": {\"summary\": \"s\"}}"

\* ValidObject without the comma between its two keys, after an object
MissingComma ==
    "{\"metadata\": {\"topic\": \"t\"}\n\"content\": {\"summary\": \"s\"}}"

\* an object that is cut off
Malformed ==
    "{\"metadata\": "

\* prose without any brace
NoBraces ==
    "I cannot do that"

\* nothing
EmptyOutput ==
    ""

\* an object between single ticks
TickedObject ==
    "Use " \o Tick \o "{\"a\": 1}" \o Tick \o " here"

\* a fenced JSON string that holds an object
FencedText ==
    Fence \o
    "json\n\"{\\\"content\\\": {\\\"summary\\\": \\\"s\\\"}}\"\n" \o
    Fence

\* a fenced JSON string that holds an object without a comma
FencedTextMissingComma ==
    Fence \o
    "json\n\"{\\\"a\\\": 1\\n\\\"content\\\": {\\\"summary\\\": \\\"s\\\"}}\"\n" \o
    Fence

\* a fenced JSON string that holds an object whose metadata is a list
FencedTextBadMetadata ==
    Fence \o
    "json\n\"{\\\"metadata\\\": [1], \\\"content\\\": {}}\"\n" \o Fence

\* a fenced JSON string that holds a content object in prose
FencedTextContentOnly ==
    Fence \o
    "json\n\"oops \\\"content\\\": {\\\"summary\\\": \\\"s\\\"} end\"\n" \o
    Fence

\* a fenced JSON string that holds no JSON
FencedTextGarbage ==
    Fence \o "json\n\"abc\"\n" \o Fence

\* what the model may print (stdout of ollama)
RawOutputs ==
    { ValidObject, FencedObject, MissingComma, MissingCommaAfterString,
      Malformed, NoBraces, EmptyOutput,
      TickedObject, FencedText, FencedTextMissingComma,
      FencedTextBadMetadata, FencedTextContentOnly, FencedTextGarbage }

\* texts of documents
ShortText ==
    "Some text. Term: def."

RichText ==
    "Set: a group. Map: a rule. Ring: a set. Field: a ring. Group"
    \o ": a set. Limit is a value. x = 1\n1. Why? 2. How? 3. When? 4"
    \o ". Who?"

LongSentence ==
    "Vectors have a size and a direction "

LongText ==
    LongSentence \o LongSentence \o LongSentence \o LongSentence
    \o LongSentence \o LongSentence

DocumentTexts == { ShortText, RichText, LongText }

\* the metadata extracted from the file name
Metadatas ==
    { JDict(<< [key |-> "subject", value |-> JStr("M")] >>),
      JDict(<< [key |-> "subject", value |-> JStr("M")],
               [key |-> "topic", value |-> JStr("Algebra")] >>) }

\* subprocess.run: the model prints an output, exits with an error status
\* (check=True), or cannot be started
LlmOutcomes ==
    { [kind |-> "ok", stdout |-> o] : o \in RawOutputs }
    \cup { [kind |-> "CalledProcessError", stdout |-> ""],
           [kind |-> "FileNotFoundError", stdout |-> ""] }

(***************************************************************************)
(* find_question_solution_pairs / find_pairs_and_classify.                 *)
(***************************************************************************)
VARIABLES
    script,                 \* which script's pairing routine runs
    file_list,              \* the file list, or the listing of source_dir
    similarity_threshold,
    pc,                     \* "start", "first_pass", "second_pass", "done"
    pdf_files,
    solution_files,
    question_files,
    pairs,
    paired_files,
    sol_index,              \* position of the first loop in solution_files
    remaining_files,
    rem_index,              \* position of the second loop in remaining_files
    unpaired_files,         \* unpaired_files / standalone_files / unpaired
    solution_bases,         \* organize_question_solution_pairs: base -> file
    q_index,                \* position of its loop over question_files
    base_index,             \* position of its loop over solution_bases
    text,                   \* process_with_deepseek: the text of the document
    metadata,
    llm,                    \* what subprocess.run will do
    recovery_pc,            \* "call", "extract", "fix", "parse", "content",
                            \* "except", "returned"
    output,
    json_text,
    fixed_json,
    exception,              \* the exception raised inside the try block
    result,                 \* the value returned
    args,                   \* quick_organize_files.main: what parse_args gave
    call,                   \* a call of one function: its name and arguments
    returned,               \* whether it returned, and the value it returned
    max_workers,            \* batch_convert: the size of the process pool
    futures,                \* one submitted process_pdf per matched file
    output_files,           \* output path -> the conversions that wrote it
    results,                \* what as_completed has handed over so far
    batch_pc,               \* "idle", "running", "done", "raised"
    entry,                  \* a command line and what its paths name
    effects,                \* what the run has done to the disk
    exit_code,              \* the exit status of the process
    entry_pc,               \* "idle", "main", "organize", "exited"
    retried,                \* pinecone_manager: the call under @retry
    attempt_number,         \* the attempts made so far
    batch_index,            \* upsert_chunks: the batch of the loop
    upserted,               \* the batches the index has taken, in order
    retry_pc,               \* "idle", "call", "running", "waiting",
                            \* "returned", "raised"
    upload,                 \* upload_to_pinecone: the chunks, the batch
                            \* size and the batches that fail
    upload_i,               \* the loop variable i
    attempted,              \* the batches handed to index.upsert, in order
    upload_pc,              \* "idle", "loop", "returned True",
                            \* "returned False"
    max_files,              \* organize_files_with_ai: 0 stands for None
    classifications,        \* what the model said of each file
    similar_groups,
    group_index,            \* position of the loop over similar_groups
    pair_count,
    copied,                 \* the calls of shutil.copy2: << file, directory >>
    file_index,             \* position of the loop over pdf_files
    organized,              \* the value organize_files_with_ai returns
    temp_files,             \* the temporary files that exist
    temp_path               \* the prompt file of process_with_deepseek

pairVars ==
    << script, file_list, similarity_threshold, pc, pdf_files, solution_files,
       question_files, pairs, paired_files, sol_index, remaining_files,
       rem_index, unpaired_files >>

\* what organize_question_solution_pairs keeps besides the names it shares
groupOnlyVars == << solution_bases, q_index, base_index >>

recoveryVars ==
    << text, metadata, llm, recovery_pc, output, json_text, fixed_json,
       exception, result >>

\* what main of quick_organize_files keeps besides the pairing it starts
mainVars == << args >>

\* one call of a function that keeps no state
callVars == << call, returned >>

\* batch_convert_pdfs.batch_convert
batchVars == << max_workers, futures, output_files, results, batch_pc >>

\* the variables of the scripts that run on their own
\* a script run from the command line
entryVars == << entry, effects, exit_code, entry_pc >>

\* a call of PineconeManager under @retry
retryVars == << retried, attempt_number, batch_index, upserted, retry_pc >>

\* a call of upload_to_pinecone
uploadVars == << upload, upload_i, attempted, upload_pc >>

\* what organize_files_with_ai keeps besides the names it shares
aiVars ==
    << max_files, classifications, similar_groups, group_index, pair_count,
       copied, file_index, organized >>

\* the temporary files of education_pdf_to_json.process_with_deepseek
tempVars == << temp_files, temp_path >>

laterVars ==
    << batchVars, entryVars, retryVars, uploadVars, aiVars, tempVars >>

\* what the pairing by similarity leaves alone
nonPairVars ==
    << groupOnlyVars, recoveryVars, mainVars, callVars, laterVars >>

\* what the grouping by base name leaves alone
nonGroupVars ==
    << similarity_threshold, paired_files, sol_index, remaining_files,
       rem_index, recoveryVars, mainVars, callVars, laterVars >>

\* what process_with_deepseek leaves alone
nonRecoveryVars ==
    << pairVars, groupOnlyVars, mainVars, callVars, laterVars >>

vars ==
    << pairVars, groupOnlyVars, recoveryVars, mainVars, callVars, laterVars >>

\* no command line was parsed
MainIdle == args = [parsed |-> FALSE, threshold |-> Frac(0, 1)]

\* no batch is converted
BatchIdle ==
    /\ max_workers = 1
    /\ futures = <<>>
    /\ output_files = <<>>
    /\ results = <<>>
    /\ batch_pc = "idle"

\* no script is run from the command line
EntryIdle ==
    /\ entry = [script |-> "none"]
    /\ effects = {}
    /\ exit_code = 0
    /\ entry_pc = "idle"

\* none of the scripts that run on their own is running
\* no call of PineconeManager is made
RetryIdle ==
    /\ retried = [fn |-> "none", batches |-> 0]
    /\ attempt_number = 0
    /\ batch_index = 1
    /\ upserted = <<>>
    /\ retry_pc = "idle"

\* no upload is running
UploadIdle ==
    /\ upload = [total_chunks |-> 0, batch_size |-> 1, failing |-> {}]
    /\ upload_i = 0
    /\ attempted = <<>>
    /\ upload_pc = "idle"

\* organize_files_with_ai is not running
AiIdle ==
    /\ max_files = 0
    /\ classifications = {}
    /\ similar_groups = << >>
    /\ group_index = 1
    /\ pair_count = 0
    /\ copied = << >>
    /\ file_index = 1
    /\ organized = << >>

\* no prompt file was written
TempIdle ==
    /\ temp_files = {}
    /\ temp_path = ""

LaterIdle ==
    /\ BatchIdle /\ EntryIdle /\ RetryIdle /\ UploadIdle
    /\ AiIdle /\ TempIdle

\* no function is called on its own
CallIdle ==
    /\ call = [fn |-> "none", arguments |-> <<>>]
    /\ returned = [done |-> FALSE, value |-> None]

GroupOnlyIdle ==
    /\ solution_bases = <<>>
    /\ q_index = 1
    /\ base_index = 1

\* no pairing and no grouping is running
PairingIdle ==
    /\ script = "none"
    /\ file_list = <<>>
    /\ similarity_threshold = Frac(0, 1)
    /\ pc = "idle"
    /\ pdf_files = <<>>
    /\ solution_files = <<>>
    /\ question_files = <<>>
    /\ pairs = <<>>
    /\ paired_files = {}
    /\ sol_index = 1
    /\ remaining_files = <<>>
    /\ rem_index = 1
    /\ unpaired_files = <<>>
    /\ GroupOnlyIdle

\* no call of process_with_deepseek is running
RecoveryIdle ==
    /\ text = ""
    /\ metadata = JDict(<<>>)
    /\ llm = [kind |-> "idle", stdout |-> ""]
    /\ recovery_pc = "idle"
    /\ output = ""
    /\ json_text = JNone
    /\ fixed_json = ""
    /\ exception = None
    /\ result = JNone

\* best_match_scan with "similarity >= best_score": a tie goes to the last file
RECURSIVE best_match_scan_last_tie(_, _, _, _, _, _, _)
best_match_scan_last_tie(sc, sol_file, qs, k, paired, thr, best) ==
    IF k > Len(qs) THEN best
    ELSE IF qs[k] \in paired
    THEN best_match_scan_last_tie(sc, sol_file, qs, k + 1, paired, thr, best)
    ELSE LET sim == similarity(sc, sol_file, qs[k])
         IN  IF FracGt(sim, thr) /\ ~FracGt(best.score, sim)
             THEN best_match_scan_last_tie(sc, sol_file, qs, k + 1, paired, thr,
                                           [match |-> qs[k], score |-> sim])
             ELSE best_match_scan_last_tie(sc, sol_file, qs, k + 1, paired, thr,
                                           best)

\* the inner loop of the first pass when it does not test paired_files
RECURSIVE best_match_scan_reusing_questions(_, _, _, _, _, _, _)
best_match_scan_reusing_questions(sc, sol_file, qs, k, paired, thr, best) ==
    IF k > Len(qs) THEN best
    ELSE LET sim == similarity(sc, sol_file, qs[k])
         IN  IF FracGt(sim, thr) /\ FracGt(sim, best.score)
             THEN best_match_scan_reusing_questions(sc, sol_file, qs, k + 1,
                      paired, thr, [match |-> qs[k], score |-> sim])
             ELSE best_match_scan_reusing_questions(sc, sol_file, qs, k + 1,
                      paired, thr, best)

\* the inner loop of the first pass, from question_files[k] on
RECURSIVE best_match_scan(_, _, _, _, _, _, _)
best_match_scan(sc, sol_file, qs, k, paired, thr, best) ==
    IF k > Len(qs) THEN best
    ELSE IF qs[k] \in paired
    THEN best_match_scan(sc, sol_file, qs, k + 1, paired, thr, best)
    ELSE LET sim == similarity(sc, sol_file, qs[k])
         IN  IF FracGt(sim, thr) /\ FracGt(sim, best.score)
             THEN best_match_scan(sc, sol_file, qs, k + 1, paired, thr,
                                  [match |-> qs[k], score |-> sim])
             ELSE best_match_scan(sc, sol_file, qs, k + 1, paired, thr, best)

find_best_match(sc, sol_file, qs, paired, thr) ==
    best_match_scan(sc, sol_file, qs, 1, paired, thr,
                    [match |-> None, score |-> Frac(0, 1)])

\* the pair the second pass appends for file1, file2
second_pass_pair(sc, file1, file2) ==
    IF sc = "streamlined" /\ ~(is_sol(sc, file1) /\ is_q(sc, file2))
    THEN <<file2, file1>>
    ELSE <<file1, file2>>

\* the inner loop of the second pass, from remaining[k] on; acc = [pairs, paired]
RECURSIVE second_pass_scan(_, _, _, _, _, _)
second_pass_scan(sc, file1, remaining, k, thr, acc) ==
    IF k > Len(remaining) THEN acc
    ELSE LET file2 == remaining[k]
         IN  IF file2 \in acc.paired
             THEN second_pass_scan(sc, file1, remaining, k + 1, thr, acc)
             ELSE IF /\ FracGt(similarity(sc, file1, file2), thr)
                     /\ \/ is_sol(sc, file1) /\ is_q(sc, file2)
                        \/ is_q(sc, file1) /\ is_sol(sc, file2)
             THEN second_pass_scan(sc, file1, remaining, k + 1, thr,
                     [pairs  |-> Append(acc.pairs,
                                        second_pass_pair(sc, file1, file2)),
                      paired |-> acc.paired \cup {file1, file2}])
             ELSE second_pass_scan(sc, file1, remaining, k + 1, thr, acc)

PairInit ==
    /\ script \in Scripts
    /\ file_list \in FileLists
    \* os.listdir yields entry names, never paths
    /\ script # "streamlined" =>
          \A i \in 1..Len(file_list) : ~InStr("/", file_list[i])
    /\ similarity_threshold \in Thresholds
    /\ pc = "start"
    /\ pdf_files = <<>>
    /\ solution_files = <<>>
    /\ question_files = <<>>
    /\ pairs = <<>>
    /\ paired_files = {}
    /\ sol_index = 1
    /\ remaining_files = <<>>
    /\ rem_index = 1
    /\ unpaired_files = <<>>
    /\ GroupOnlyIdle
    /\ RecoveryIdle
    /\ MainIdle
    /\ CallIdle
    /\ LaterIdle

\* the listing, the two buckets, the empty result
Classify ==
    /\ pc = "start"
    /\ LET files == IF script = "streamlined" THEN file_list
                    ELSE SelectSeq(file_list, LAMBDA f : PdfTable[f])
       IN  /\ pdf_files' = files
           /\ solution_files' = SelectSeq(files, LAMBDA f : is_sol(script, f))
           /\ question_files' = SelectSeq(files, LAMBDA f : is_q(script, f))
    /\ pairs' = <<>>
    /\ paired_files' = {}
    /\ sol_index' = 1
    /\ pc' = "first_pass"
    /\ UNCHANGED nonPairVars
    /\ UNCHANGED << script, file_list, similarity_threshold, remaining_files,
                    rem_index, unpaired_files >>

\* first loop: the solution file was consumed already
FirstPassSkip ==
    /\ pc = "first_pass"
    /\ sol_index <= Len(solution_files)
    /\ solution_files[sol_index] \in paired_files
    /\ sol_index' = sol_index + 1
    /\ UNCHANGED nonPairVars
    /\ UNCHANGED << script, file_list, similarity_threshold, pc, pdf_files,
                    solution_files, question_files, pairs, paired_files,
                    remaining_files, rem_index, unpaired_files >>

\* first loop: a best match was found
FirstPassCommit ==
    /\ pc = "first_pass"
    /\ sol_index <= Len(solution_files)
    /\ solution_files[sol_index] \notin paired_files
    /\ LET sol_file == solution_files[sol_index]
           best == find_best_match(script, sol_file, question_files,
                                   paired_files, similarity_threshold)
       IN  /\ Truthy(best.match)
           /\ pairs' = Append(pairs, <<sol_file, best.match>>)
           /\ paired_files' = paired_files \cup {sol_file, best.match}
    /\ sol_index' = sol_index + 1
    /\ UNCHANGED nonPairVars
    /\ UNCHANGED << script, file_list, similarity_threshold, pc, pdf_files,
                    solution_files, question_files, remaining_files,
                    rem_index, unpaired_files >>

\* first loop: no question file qualifies
FirstPassNoMatch ==
    /\ pc = "first_pass"
    /\ sol_index <= Len(solution_files)
    /\ solution_files[sol_index] \notin paired_files
    /\ ~Truthy(find_best_match(script, solution_files[sol_index],
                               question_files, paired_files,
                               similarity_threshold).match)
    /\ sol_index' = sol_index + 1
    /\ UNCHANGED nonPairVars
    /\ UNCHANGED << script, file_list, similarity_threshold, pc, pdf_files,
                    solution_files, question_files, pairs, paired_files,
                    remaining_files, rem_index, unpaired_files >>

\* the first loop is over: the files that are left
FirstPassEnd ==
    /\ pc = "first_pass"
    /\ sol_index > Len(solution_files)
    /\ remaining_files' = SelectSeq(pdf_files, LAMBDA f : f \notin paired_files)
    /\ rem_index' = 1
    /\ pc' = "second_pass"
    /\ UNCHANGED nonPairVars
    /\ UNCHANGED << script, file_list, similarity_threshold, pdf_files,
                    solution_files, question_files, pairs, paired_files,
                    sol_index, unpaired_files >>

\* second loop: file1 was consumed already
SecondPassSkip ==
    /\ pc = "second_pass"
    /\ rem_index <= Len(remaining_files)
    /\ remaining_files[rem_index] \in paired_files
    /\ rem_index' = rem_index + 1
    /\ UNCHANGED nonPairVars
    /\ UNCHANGED << script, file_list, similarity_threshold, pc, pdf_files,
                    solution_files, question_files, pairs, paired_files,
                    sol_index, remaining_files, unpaired_files >>

\* second loop: file1 against every later remaining file
SecondPassScan ==
    /\ pc = "second_pass"
    /\ rem_index <= Len(remaining_files)
    /\ remaining_files[rem_index] \notin paired_files
    /\ LET acc == second_pass_scan(script, remaining_files[rem_index],
                                   remaining_files, rem_index + 1,
                                   similarity_threshold,
                                   [pairs |-> pairs, paired |-> paired_files])
       IN  /\ pairs' = acc.pairs
           /\ paired_files' = acc.paired
    /\ rem_index' = rem_index + 1
    /\ UNCHANGED nonPairVars
    /\ UNCHANGED << script, file_list, similarity_threshold, pc, pdf_files,
                    solution_files, question_files, sol_index,
                    remaining_files, unpaired_files >>

\* the files in no pair
Finish ==
    /\ pc = "second_pass"
    /\ rem_index > Len(remaining_files)
    /\ unpaired_files' = SelectSeq(pdf_files, LAMBDA f : f \notin paired_files)
    /\ pc' = "done"
    /\ UNCHANGED nonPairVars
    /\ UNCHANGED << script, file_list, similarity_threshold, pdf_files,
                    solution_files, question_files, pairs, paired_files,
                    sol_index, remaining_files, rem_index >>

PairNext ==
    \/ Classify
    \/ FirstPassSkip
    \/ FirstPassCommit
    \/ FirstPassNoMatch
    \/ FirstPassEnd
    \/ SecondPassSkip
    \/ SecondPassScan
    \/ Finish

(***************************************************************************)
(* quick_organize_files: main, organize_files and the pairing they start.  *)
(***************************************************************************)
\* similarity_threshold=0.8, the default of find_pairs_and_classify
quick_default_threshold == Frac(4, 5)

\* after parse_args, source_dir being a directory: args.threshold is the
\* value of -t, or its default
QuickMainInit ==
    /\ script = "quick_organize_files"
    /\ file_list \in FileLists
    /\ \A i \in 1..Len(file_list) : ~InStr("/", file_list[i])
    /\ args \in { [parsed |-> TRUE, threshold |-> t] : t \in Thresholds }
    \* no call of find_pairs_and_classify yet: its parameter is not bound
    /\ similarity_threshold = Frac(0, 1)
    /\ pc = "main"
    /\ pdf_files = <<>>
    /\ solution_files = <<>>
    /\ question_files = <<>>
    /\ pairs = <<>>
    /\ paired_files = {}
    /\ sol_index = 1
    /\ remaining_files = <<>>
    /\ rem_index = 1
    /\ unpaired_files = <<>>
    /\ GroupOnlyIdle
    /\ RecoveryIdle
    /\ CallIdle
    /\ LaterIdle

\* main calls organize_files(args.source_dir, args.output_dir), which calls
\* find_pairs_and_classify(source_dir): the threshold is the default
QuickMain ==
    /\ pc = "main"
    /\ similarity_threshold' = quick_default_threshold
    /\ pc' = "start"
    /\ UNCHANGED << script, file_list, pdf_files, solution_files,
                    question_files, pairs, paired_files, sol_index,
                    remaining_files, rem_index, unpaired_files >>
    /\ UNCHANGED nonPairVars

(***************************************************************************)
(* The pairing routines, called with a threshold or started by main.       *)
(***************************************************************************)
Init == PairInit \/ QuickMainInit
Next == PairNext \/ QuickMain
Spec == Init /\ [][Next]_vars

(***************************************************************************)
(* organize_question_solution_pairs.find_question_solution_pairs.  A dict   *)
(* is the sequence of its entries [key, value] in insertion order.          *)
(***************************************************************************)
dict_has(d, k) == \E i \in 1..Len(d) : d[i].key = k

dict_pos(d, k) == CHOOSE i \in 1..Len(d) : d[i].key = k

\* d[k] = v
dict_put(d, k, v) ==
    IF dict_has(d, k)
    THEN [d EXCEPT ![dict_pos(d, k)].value = v]
    ELSE Append(d, [key |-> k, value |-> v])

\* d[k].append(f) on a defaultdict(list)
dict_append(d, k, f) ==
    IF dict_has(d, k)
    THEN [d EXCEPT ![dict_pos(d, k)].value = Append(@, f)]
    ELSE Append(d, [key |-> k, value |-> <<f>>])

\* {extract_base_name(f): f for f in files[k:]}, added to d
RECURSIVE bases_of(_, _, _)
bases_of(files, k, d) ==
    IF k > Len(files) THEN d
    ELSE bases_of(files, k + 1, dict_put(d, BaseNameTable[files[k]], files[k]))

\* the loop over pairs.keys() that looks for a close match, from entry k on
RECURSIVE close_match_scan(_, _, _, _)
close_match_scan(d, k, base_name, best) ==
    IF k > Len(d) THEN best
    ELSE LET score == base_score(d[k].key, base_name)
         IN  IF FracGt(score, Frac(1, 2)) /\ FracGt(score, best.score)
             THEN close_match_scan(d, k + 1, base_name,
                                   [match |-> d[k].key, score |-> score])
             ELSE close_match_scan(d, k + 1, base_name, best)

close_match(d, base_name) ==
    close_match_scan(d, 1, base_name, [match |-> None, score |-> Frac(0, 1)])

\* [files[0] for files in d.values() if len(files) == 1], from entry k on
RECURSIVE single_files(_, _)
single_files(d, k) ==
    IF k > Len(d) THEN <<>>
    ELSE (IF Len(d[k].value) = 1 THEN <<d[k].value[1]>> ELSE <<>>)
         \o single_files(d, k + 1)

GroupInit ==
    /\ script = "organize_question_solution_pairs"
    /\ file_list \in GroupListings
    /\ pc = "group_start"
    /\ similarity_threshold = Frac(0, 1)
    /\ pdf_files = <<>>
    /\ solution_files = <<>>
    /\ question_files = <<>>
    /\ pairs = <<>>
    /\ paired_files = {}
    /\ sol_index = 1
    /\ remaining_files = <<>>
    /\ rem_index = 1
    /\ unpaired_files = <<>>
    /\ GroupOnlyIdle
    /\ RecoveryIdle
    /\ MainIdle
    /\ CallIdle
    /\ LaterIdle

\* the listing, the two buckets, the bases of the solution files
GroupClassify ==
    /\ pc = "group_start"
    /\ LET files == SelectSeq(file_list, LAMBDA f : GroupPdfTable[f])
           sols  == SelectSeq(files, LAMBDA f : GroupSolutionTable[f])
       IN  /\ pdf_files' = files
           /\ solution_files' = sols
           /\ question_files' =
                 SelectSeq(files, LAMBDA f : \A i \in 1..Len(sols) : sols[i] # f)
           /\ solution_bases' = bases_of(sols, 1, <<>>)
    /\ pairs' = <<>>
    /\ unpaired_files' = <<>>
    /\ q_index' = 1
    /\ pc' = "group_questions"
    /\ UNCHANGED << script, file_list, base_index >>
    /\ UNCHANGED nonGroupVars

\* first loop: a question file joins the group of its base name
GroupQuestion ==
    /\ pc = "group_questions"
    /\ q_index <= Len(question_files)
    /\ pairs' = dict_append(pairs, BaseNameTable[question_files[q_index]],
                            question_files[q_index])
    /\ q_index' = q_index + 1
    /\ UNCHANGED << script, file_list, pc, pdf_files, solution_files,
                    question_files, unpaired_files, solution_bases,
                    base_index >>
    /\ UNCHANGED nonGroupVars

\* the first loop is over
GroupQuestionsEnd ==
    /\ pc = "group_questions"
    /\ q_index > Len(question_files)
    /\ base_index' = 1
    /\ pc' = "group_solutions"
    /\ UNCHANGED << script, file_list, pdf_files, solution_files,
                    question_files, pairs, unpaired_files, solution_bases,
                    q_index >>
    /\ UNCHANGED nonGroupVars

\* second loop: the base name of the solution file is a key of pairs
GroupSolutionExact ==
    /\ pc = "group_solutions"
    /\ base_index <= Len(solution_bases)
    /\ dict_has(pairs, solution_bases[base_index].key)
    /\ pairs' = dict_append(pairs, solution_bases[base_index].key,
                            solution_bases[base_index].value)
    /\ base_index' = base_index + 1
    /\ UNCHANGED << script, file_list, pc, pdf_files, solution_files,
                    question_files, unpaired_files, solution_bases, q_index >>
    /\ UNCHANGED nonGroupVars

\* second loop: the solution file joins the group of the closest base name
GroupSolutionClose ==
    /\ pc = "group_solutions"
    /\ base_index <= Len(solution_bases)
    /\ ~dict_has(pairs, solution_bases[base_index].key)
    /\ LET best == close_match(pairs, solution_bases[base_index].key)
       IN  /\ Truthy(best.match)
           /\ pairs' = dict_append(pairs, best.match,
                                   solution_bases[base_index].value)
    /\ base_index' = base_index + 1
    /\ UNCHANGED << script, file_list, pc, pdf_files, solution_files,
                    question_files, unpaired_files, solution_bases, q_index >>
    /\ UNCHANGED nonGroupVars

\* second loop: no close base name, the solution file starts a group
GroupSolutionNew ==
    /\ pc = "group_solutions"
    /\ base_index <= Len(solution_bases)
    /\ ~dict_has(pairs, solution_bases[base_index].key)
    /\ ~Truthy(close_match(pairs, solution_bases[base_index].key).match)
    /\ pairs' = dict_append(pairs, solution_bases[base_index].key,
                            solution_bases[base_index].value)
    /\ base_index' = base_index + 1
    /\ UNCHANGED << script, file_list, pc, pdf_files, solution_files,
                    question_files, unpaired_files, solution_bases, q_index >>
    /\ UNCHANGED nonGroupVars

\* the groups of one file are the unpaired files, the others are returned
GroupFinish ==
    /\ pc = "group_solutions"
    /\ base_index > Len(solution_bases)
    /\ unpaired_files' = single_files(pairs, 1)
    /\ pairs' = SelectSeq(pairs, LAMBDA e : Len(e.value) > 1)
    /\ pc' = "group_done"
    /\ UNCHANGED << script, file_list, pdf_files, solution_files,
                    question_files, solution_bases, q_index, base_index >>
    /\ UNCHANGED nonGroupVars

GroupNext ==
    \/ GroupClassify
    \/ GroupQuestion
    \/ GroupQuestionsEnd
    \/ GroupSolutionExact
    \/ GroupSolutionClose
    \/ GroupSolutionNew
    \/ GroupFinish

GroupSpec == GroupInit /\ [][GroupNext]_vars

(***************************************************************************)
(* process_with_deepseek.                                                  *)
(***************************************************************************)
\* key in v, for a dict v
has_key(v, k) == v.t = "dict" /\ \E i \in 1..Len(v.entries) : v.entries[i].key = k

\* v[k]
value_of(v, k) ==
    v.entries[CHOOSE i \in 1..Len(v.entries) : v.entries[i].key = k].value

\* d.update(other) on the entries of two dicts, from entry k of other on
RECURSIVE entries_update(_, _, _)
entries_update(d, other, k) ==
    IF k > Len(other) THEN d
    ELSE entries_update(entries_put(d, other[k].key, other[k].value), other,
                        k + 1)

\* parsed_json["metadata"] fails to update: it is no dict (AttributeError)
metadata_update_raises(parsed_json) ==
    has_key(parsed_json, "metadata")
    /\ value_of(parsed_json, "metadata").t # "dict"

\* parsed_json after the extracted metadata is added
with_metadata(parsed_json, md) ==
    IF has_key(parsed_json, "metadata")
    THEN JDict(entries_put(parsed_json.entries, "metadata",
                 JDict(entries_update(value_of(parsed_json, "metadata").entries,
                                      md.entries, 1))))
    ELSE JDict(entries_put(parsed_json.entries, "metadata", md))

\* re.search(r'"content"\s*:\s*(\{[^}]*\})', s, re.DOTALL): where the group
\* of a match that starts at index i starts, 0 for no match
content_group_start(s, i) ==
    LET colon == SkipSpaces(s, i + 9)
        brace == SkipSpaces(s, colon + 1)
    IN  IF /\ MatchAt(s, i, "\"content\"")
           /\ At(s, colon) = ":"
           /\ At(s, brace) = "{"
           /\ Find(s, "}", brace + 1) # 0
        THEN brace
        ELSE 0

\* group(1) of the first match, "" when there is no match
content_group(s) ==
    LET starts == { i \in 1..Len(s) : content_group_start(s, i) # 0 }
    IN  IF starts = {} THEN ""
        ELSE LET brace == content_group_start(s,
                              CHOOSE i \in starts : \A j \in starts : i <= j)
             IN  Slice(s, brace, Find(s, "}", brace + 1) + 1)

\* json.loads of the content part, for a fixed_json that does not parse
content_parsed(fixed) ==
    IF content_group(fixed) = "" THEN [ok |-> FALSE, val |-> JNone]
    ELSE json_loads("{\"content\": " \o content_group(fixed) \o "}")

RecoveryInit ==
    /\ text \in DocumentTexts
    /\ metadata \in Metadatas
    /\ llm \in LlmOutcomes
    /\ recovery_pc = "call"
    /\ output = ""
    /\ json_text = JNone
    /\ fixed_json = ""
    /\ exception = None
    /\ result = JNone
    /\ PairingIdle
    /\ MainIdle
    /\ CallIdle
    /\ LaterIdle

\* subprocess.run returns: output is what the model printed, stripped
CallModel ==
    /\ recovery_pc = "call"
    /\ llm.kind = "ok"
    /\ output' = strip(llm.stdout)
    /\ recovery_pc' = "extract"
    /\ UNCHANGED << text, metadata, llm, json_text, fixed_json, exception,
                    result >>
    /\ UNCHANGED nonRecoveryVars

\* subprocess.run raises
CallModelRaises ==
    /\ recovery_pc = "call"
    /\ llm.kind # "ok"
    /\ exception' = llm.kind
    /\ recovery_pc' = "except"
    /\ UNCHANGED << text, metadata, llm, output, json_text, fixed_json,
                    result >>
    /\ UNCHANGED nonRecoveryVars

\* json_text = extract_json_from_text(output)
ExtractJson ==
    /\ recovery_pc = "extract"
    /\ json_text' = extract_json_from_text(output)
    /\ recovery_pc' = "fix"
    /\ UNCHANGED << text, metadata, llm, output, fixed_json, exception,
                    result >>
    /\ UNCHANGED nonRecoveryVars

\* fixed_json = fix_json_string(json_text)
FixJson ==
    /\ recovery_pc = "fix"
    /\ ~fix_json_string(json_text).raises
    /\ fixed_json' = fix_json_string(json_text).text
    /\ recovery_pc' = "parse"
    /\ UNCHANGED << text, metadata, llm, output, json_text, exception,
                    result >>
    /\ UNCHANGED nonRecoveryVars

\* fix_json_string(json_text) raises TypeError
FixJsonRaises ==
    /\ recovery_pc = "fix"
    /\ fix_json_string(json_text).raises
    /\ exception' = "TypeError"
    /\ recovery_pc' = "except"
    /\ UNCHANGED << text, metadata, llm, output, json_text, fixed_json,
                    result >>
    /\ UNCHANGED nonRecoveryVars

\* json.loads(fixed_json) succeeds: the metadata is added, the value returned
ParseJson ==
    /\ recovery_pc = "parse"
    /\ json_loads(fixed_json).ok
    /\ ~metadata_update_raises(json_loads(fixed_json).val)
    /\ result' = with_metadata(json_loads(fixed_json).val, metadata)
    /\ recovery_pc' = "returned"
    /\ UNCHANGED << text, metadata, llm, output, json_text, fixed_json,
                    exception >>
    /\ UNCHANGED nonRecoveryVars

\* json.loads(fixed_json) succeeds, parsed_json["metadata"].update raises
ParseJsonUpdateRaises ==
    /\ recovery_pc = "parse"
    /\ json_loads(fixed_json).ok
    /\ metadata_update_raises(json_loads(fixed_json).val)
    /\ exception' = "AttributeError"
    /\ recovery_pc' = "except"
    /\ UNCHANGED << text, metadata, llm, output, json_text, fixed_json,
                    result >>
    /\ UNCHANGED nonRecoveryVars

\* json.loads(fixed_json) raises json.JSONDecodeError
ParseJsonFails ==
    /\ recovery_pc = "parse"
    /\ ~json_loads(fixed_json).ok
    /\ recovery_pc' = "content"
    /\ UNCHANGED << text, metadata, llm, output, json_text, fixed_json,
                    exception, result >>
    /\ UNCHANGED nonRecoveryVars

\* the content part of fixed_json parses: it is returned with the metadata
ContentOnly ==
    /\ recovery_pc = "content"
    /\ content_parsed(fixed_json).ok
    /\ result' = JDict(entries_put(content_parsed(fixed_json).val.entries,
                                   "metadata", metadata))
    /\ recovery_pc' = "returned"
    /\ UNCHANGED << text, metadata, llm, output, json_text, fixed_json,
                    exception >>
    /\ UNCHANGED nonRecoveryVars

\* no content part that parses: the fallback structure is returned
ContentFails ==
    /\ recovery_pc = "content"
    /\ ~content_parsed(fixed_json).ok
    /\ result' = create_fallback_json(text, metadata)
    /\ recovery_pc' = "returned"
    /\ UNCHANGED << text, metadata, llm, output, json_text, fixed_json,
                    exception >>
    /\ UNCHANGED nonRecoveryVars

\* except subprocess.CalledProcessError
HandleCalledProcessError ==
    /\ recovery_pc = "except"
    /\ exception = "CalledProcessError"
    /\ result' = create_fallback_json(text, metadata)
    /\ recovery_pc' = "returned"
    /\ UNCHANGED << text, metadata, llm, output, json_text, fixed_json,
                    exception >>
    /\ UNCHANGED nonRecoveryVars

\* except Exception
HandleException ==
    /\ recovery_pc = "except"
    /\ exception # "CalledProcessError"
    /\ result' = create_fallback_json(text, metadata)
    /\ recovery_pc' = "returned"
    /\ UNCHANGED << text, metadata, llm, output, json_text, fixed_json,
                    exception >>
    /\ UNCHANGED nonRecoveryVars

RecoveryNext ==
    \/ CallModel
    \/ CallModelRaises
    \/ ExtractJson
    \/ FixJson
    \/ FixJsonRaises
    \/ ParseJson
    \/ ParseJsonUpdateRaises
    \/ ParseJsonFails
    \/ ContentOnly
    \/ ContentFails
    \/ HandleCalledProcessError
    \/ HandleException

RecoverySpec == RecoveryInit /\ [][RecoveryNext]_vars

(***************************************************************************)
(* chunk_text of streamlined_education_pdf_to_json.                        *)
(***************************************************************************)
\* def chunk_text(text, max_chunk_size=3000)
default_max_chunk_size == 3000

\* text.split("\n\n") from index i on; the piece being read starts at start
RECURSIVE split_paragraphs_from(_, _, _)
split_paragraphs_from(s, i, start) ==
    IF i > Len(s) THEN << Slice(s, start, Len(s) + 1) >>
    ELSE IF MatchAt(s, i, "\n\n")
    THEN << Slice(s, start, i) >> \o split_paragraphs_from(s, i + 2, i + 2)
    ELSE split_paragraphs_from(s, i + 1, start)

\* re.split(r'(?<=[.!?])\s+', paragraph) from index i on
RECURSIVE split_sentences_from(_, _, _)
split_sentences_from(s, i, start) ==
    IF i > Len(s) THEN << Slice(s, start, Len(s) + 1) >>
    ELSE IF IsSpace(At(s, i)) /\ At(s, i - 1) \in {".", "!", "?"}
    THEN << Slice(s, start, i) >>
             \o split_sentences_from(s, SkipSpaces(s, i), SkipSpaces(s, i))
    ELSE split_sentences_from(s, i + 1, start)

\* "\n\n".join(pieces), from pieces[k] on
RECURSIVE join_from(_, _)
join_from(pieces, k) ==
    IF k > Len(pieces) THEN ""
    ELSE IF k = Len(pieces) THEN pieces[k]
    ELSE pieces[k] \o "\n\n" \o join_from(pieces, k + 1)

\* one sentence or paragraph is added; st = [chunks, current_chunk,
\* current_size], chunks being the lists of pieces that are joined
add_piece(piece, max_chunk_size, st) ==
    IF st.current_size + Len(piece) + 2 > max_chunk_size
    THEN [chunks        |-> Append(st.chunks, st.current_chunk),
          current_chunk |-> << piece >>,
          current_size  |-> Len(piece)]
    ELSE [chunks        |-> st.chunks,
          current_chunk |-> Append(st.current_chunk, piece),
          current_size  |-> st.current_size + Len(piece) + 2]

\* the loop over the sentences of a paragraph that is too large
RECURSIVE add_sentences(_, _, _, _)
add_sentences(sentences, k, max_chunk_size, st) ==
    IF k > Len(sentences) THEN st
    ELSE add_sentences(sentences, k + 1, max_chunk_size,
                       add_piece(sentences[k], max_chunk_size, st))

\* the loop over the paragraphs
RECURSIVE add_paragraphs(_, _, _, _)
add_paragraphs(paragraphs, k, max_chunk_size, st) ==
    IF k > Len(paragraphs) THEN st
    ELSE IF Len(paragraphs[k]) > max_chunk_size
    THEN add_paragraphs(paragraphs, k + 1, max_chunk_size,
             add_sentences(split_sentences_from(paragraphs[k], 1, 1), 1,
                           max_chunk_size, st))
    ELSE add_paragraphs(paragraphs, k + 1, max_chunk_size,
             add_piece(paragraphs[k], max_chunk_size, st))

\* the chunks before they are joined, the last current_chunk included
flush(st) ==
    IF st.current_chunk # << >> THEN Append(st.chunks, st.current_chunk)
    ELSE st.chunks

chunk_pieces(txt, max_chunk_size) ==
    flush(add_paragraphs(split_paragraphs_from(txt, 1, 1), 1, max_chunk_size,
              [chunks |-> << >>, current_chunk |-> << >>, current_size |-> 0]))

joined(chunks) == [ i \in 1..Len(chunks) |-> join_from(chunks[i], 1) ]

chunk_text(txt, max_chunk_size) ==
    IF txt = "" THEN << "No text content available." >>
    ELSE IF chunk_pieces(txt, max_chunk_size) = << >>
    THEN << "No meaningful content could be extracted." >>
    ELSE joined(chunk_pieces(txt, max_chunk_size))

\* texts and sizes handed to chunk_text
ChunkTexts ==
    { "", "ab", "abcdef", "abcd", "ab\n\ncd", "ab\n\ncd\n\nef", "\n\n",
      "ab\n\n\n\ncd", "Hi. Go on now! Ok?", "a. b. c. d.", "One.  Two\nx. ",
      "abcdefgh\n\nab", "ab\n\nOne. Two. T.\n\ncd", "a.\nb? c",
      "abcdefghijkl", "ab\n\n\ncd" }

ChunkSizes == { 4, 6, 10, default_max_chunk_size }

(***************************************************************************)
(* The functions that keep no state, each called once on its arguments:    *)
(* is_solution_file, is_question_file, classify_document,                  *)
(* calculate_filename_similarity, create_fallback_json and chunk_text.     *)
(***************************************************************************)
\* file names handed to the classifiers
ClassifyNames ==
    { "Paper1 Solution.pdf", "jc p1-ans.pdf", "answer key.pdf",
      "Tutor copy.pdf", "Paper1 Question.pdf", "2021 exam.pdf", "quiz-3.pdf",
      "p9 qn ans.pdf", "Exam Solutions.pdf", "notes solutions.pdf",
      "Lecture 3 answers.pdf", "chapter 2 questions.pdf", "topic test.pdf",
      "notes qn ans.pdf", "Topic3 Notes.pdf", "formula sheet.pdf",
      "cheat sheet.pdf", "BMQ3sol.pdf", "apq7.pdf", "solapq.pdf", "ch3.pdf",
      "topic5.pdf", "tutoring.pdf", "lecturer.pdf", "random.pdf", "",
      "Matrices.pdf", "Paper1_Solution.pdf", "Paper1_Question.pdf",
      "Topic3_Notes.pdf", "2021_JC_Prelim_Qn.pdf", "apq1_sol.pdf",
      "examine.pdf", "resolution.pdf", "answering.pdf", "keyboard.pdf",
      "testing.pdf", "sol.pdf", "paper.sol.pdf", "ANS.PDF", "paper-sol.pdf",
      "exam", "my notes", "Guide_v2.pdf", "(sol).pdf" }

\* file names handed to calculate_filename_similarity
SimilarityNames ==
    { "Paper1_Solution.pdf", "Paper1_Question.pdf", "solution.pdf",
      "Questions.pdf", "jc p1 alg sol.pdf", "jc p2 alg qn.pdf",
      "jc p1 ans.pdf", "jc-p1 alg extra qn.pdf", "P1 JC.pdf", "" }

Calls ==
    { [fn |-> f, arguments |-> << n >>] :
        f \in {"is_solution_file", "is_question_file", "classify_document"},
        n \in ClassifyNames }
    \cup { [fn |-> "calculate_filename_similarity", arguments |-> << a, b >>] :
             a \in SimilarityNames, b \in SimilarityNames }
    \cup { [fn |-> "create_fallback_json", arguments |-> << t, md >>] :
             t \in DocumentTexts, md \in Metadatas }
    \* chunk_text(text) and chunk_text(text, max_chunk_size): the text, the
    \* size in force and whether it was passed
    \cup { [fn |-> "chunk_text",
            arguments |-> << t, n, n # default_max_chunk_size >>] :
             t \in ChunkTexts, n \in ChunkSizes }

CallInit ==
    /\ call \in Calls
    /\ returned = [done |-> FALSE, value |-> None]
    /\ PairingIdle
    /\ RecoveryIdle
    /\ MainIdle
    /\ LaterIdle

\* fn is called and has not returned
Calling(fn) == call.fn = fn /\ ~returned.done

\* fn was called and has returned
Returned(fn) == call.fn = fn /\ returned.done

CallIsSolutionFile ==
    /\ Calling("is_solution_file")
    /\ returned' = [done |-> TRUE,
                    value |-> is_solution_file(call.arguments[1])]
    /\ UNCHANGED << call, pairVars, groupOnlyVars, recoveryVars, mainVars,
                    laterVars >>

CallIsQuestionFile ==
    /\ Calling("is_question_file")
    /\ returned' = [done |-> TRUE,
                    value |-> is_question_file(call.arguments[1])]
    /\ UNCHANGED << call, pairVars, groupOnlyVars, recoveryVars, mainVars,
                    laterVars >>

CallClassifyDocument ==
    /\ Calling("classify_document")
    /\ returned' = [done |-> TRUE,
                    value |-> classify_document(call.arguments[1])]
    /\ UNCHANGED << call, pairVars, groupOnlyVars, recoveryVars, mainVars,
                    laterVars >>

CallFilenameSimilarity ==
    /\ Calling("calculate_filename_similarity")
    /\ returned' =
          [done |-> TRUE,
           value |-> calculate_filename_similarity(call.arguments[1],
                                                   call.arguments[2])]
    /\ UNCHANGED << call, pairVars, groupOnlyVars, recoveryVars, mainVars,
                    laterVars >>

CallCreateFallbackJson ==
    /\ Calling("create_fallback_json")
    /\ returned' =
          [done |-> TRUE,
           value |-> create_fallback_json(call.arguments[1],
                                          call.arguments[2])]
    /\ UNCHANGED << call, pairVars, groupOnlyVars, recoveryVars, mainVars,
                    laterVars >>

CallChunkText ==
    /\ Calling("chunk_text")
    /\ returned' = [done |-> TRUE,
                    value |-> chunk_text(call.arguments[1],
                                         call.arguments[2])]
    /\ UNCHANGED << call, pairVars, groupOnlyVars, recoveryVars, mainVars,
                    laterVars >>

CallNext ==
    \/ CallIsSolutionFile
    \/ CallIsQuestionFile
    \/ CallClassifyDocument
    \/ CallFilenameSimilarity
    \/ CallCreateFallbackJson
    \/ CallChunkText

CallSpec == CallInit /\ [][CallNext]_vars

(***************************************************************************)
(* batch_convert_pdfs: batch_convert and the process_pdf calls it submits  *)
(* to a pool of max_workers processes.  The disk is the dict output_files: *)
(* output path -> the files whose conversion wrote that path, in order.    *)
(***************************************************************************)
\* what glob.glob('data/**/*.pdf', recursive=True) may match
BatchPaths == { "data/a/p.pdf", "data/b/p.pdf", "data/q.pdf" }

\* what pdf_to_educational_json does: saves a result and returns it, saves
\* {} and returns it, returns False for a PDF without text, or raises
ConversionOutcomes == { "converted", "empty", "no_text", "raises" }

\* the directory the model converts into
batch_output_dir == "out"

\* process_pdf: the path of the file it has pdf_to_educational_json write
output_path(pdf_path, output_dir) ==
    output_dir \o "/" \o splitext_root(basename(pdf_path)) \o "_enhanced.json"

\* process_pdf without its except clause
process_pdf_without_except(pdf_path, conversion) ==
    [raised |-> conversion = "raises",
     value |-> << pdf_path, conversion = "converted" >>]

\* process_pdf: what the call gives back for an outcome of the conversion
process_pdf(pdf_path, conversion) ==
    [raised |-> FALSE, value |-> << pdf_path, conversion = "converted" >>]

\* the futures in state st
in_state(st) == { i \in 1..Len(futures) : futures[i].state = st }

BatchInit ==
    /\ max_workers \in {1, 2, 3}
    /\ \E T \in SUBSET BatchPaths :
        \E q \in Orderings(T) :
          \E c \in [1..Cardinality(T) -> ConversionOutcomes] :
            futures = [i \in 1..Cardinality(T) |->
                         [pdf |-> q[i], conversion |-> c[i],
                          state |-> "pending"]]
    /\ output_files = <<>>
    /\ results = <<>>
    /\ batch_pc = "running"
    /\ PairingIdle
    /\ RecoveryIdle
    /\ MainIdle
    /\ CallIdle
    /\ AiIdle
    /\ TempIdle
    /\ EntryIdle
    /\ RetryIdle
    /\ UploadIdle

\* if not pdf_files: return
NoPdfFiles ==
    /\ batch_pc = "running"
    /\ futures = <<>>
    /\ batch_pc' = "done"
    /\ UNCHANGED << max_workers, futures, output_files, results >>
    /\ UNCHANGED << pairVars, groupOnlyVars, recoveryVars, mainVars, callVars,
                    aiVars, tempVars, entryVars, retryVars,
                    uploadVars >>

\* a free process of the pool takes the next submitted call
StartProcessPdf ==
    /\ batch_pc = "running"
    /\ in_state("pending") # {}
    /\ Cardinality(in_state("running") \cup in_state("saved")) < max_workers
    /\ \E i \in in_state("pending") :
          /\ \A j \in in_state("pending") : i <= j
          /\ futures' = [futures EXCEPT ![i].state = "running"]
    /\ UNCHANGED << max_workers, output_files, results, batch_pc >>
    /\ UNCHANGED << pairVars, groupOnlyVars, recoveryVars, mainVars, callVars,
                    aiVars, tempVars, entryVars, retryVars,
                    uploadVars >>

\* pdf_to_educational_json writes output_path
SaveOutput ==
    /\ batch_pc = "running"
    /\ \E i \in in_state("running") :
          /\ futures[i].conversion \in {"converted", "empty"}
          /\ output_files' =
                dict_append(output_files,
                            output_path(futures[i].pdf, batch_output_dir),
                            futures[i].pdf)
          /\ futures' = [futures EXCEPT ![i].state = "saved"]
    /\ UNCHANGED << max_workers, results, batch_pc >>
    /\ UNCHANGED << pairVars, groupOnlyVars, recoveryVars, mainVars, callVars,
                    aiVars, tempVars, entryVars, retryVars,
                    uploadVars >>

\* process_pdf returns, or leaves through its except clause
ReturnFromProcessPdf ==
    /\ batch_pc = "running"
    /\ \E i \in in_state("running") \cup in_state("saved") :
          /\ futures[i].state = "running"
                => futures[i].conversion \in {"no_text", "raises"}
          /\ futures' = [futures EXCEPT ![i].state = "finished"]
    /\ UNCHANGED << max_workers, output_files, results, batch_pc >>
    /\ UNCHANGED << pairVars, groupOnlyVars, recoveryVars, mainVars, callVars,
                    aiVars, tempVars, entryVars, retryVars,
                    uploadVars >>

\* what results.append(future.result()) leaves in results and in batch_pc
collected(r) ==
    /\ results' = IF r.raised THEN results ELSE Append(results, r.value)
    /\ batch_pc' = IF r.raised THEN "raised" ELSE batch_pc

\* for future in as_completed(futures): results.append(future.result())
CollectResult ==
    /\ batch_pc = "running"
    /\ \E i \in in_state("finished") :
          /\ collected(process_pdf(futures[i].pdf, futures[i].conversion))
          /\ futures' = [futures EXCEPT ![i].state = "collected"]
    /\ UNCHANGED << max_workers, output_files >>
    /\ UNCHANGED << pairVars, groupOnlyVars, recoveryVars, mainVars, callVars,
                    aiVars, tempVars, entryVars, retryVars,
                    uploadVars >>

\* every future was handed over: the summary is printed
Summarize ==
    /\ batch_pc = "running"
    /\ futures # <<>>
    /\ in_state("collected") = 1..Len(futures)
    /\ batch_pc' = "done"
    /\ UNCHANGED << max_workers, futures, output_files, results >>
    /\ UNCHANGED << pairVars, groupOnlyVars, recoveryVars, mainVars, callVars,
                    aiVars, tempVars, entryVars, retryVars,
                    uploadVars >>

BatchNext ==
    \/ NoPdfFiles
    \/ StartProcessPdf
    \/ SaveOutput
    \/ ReturnFromProcessPdf
    \/ CollectResult
    \/ Summarize

BatchSpec == BatchInit /\ [][BatchNext]_vars

(***************************************************************************)
(* The command lines: main of organize_question_solution_pairs, of         *)
(* quick_organize_files, of organize_documents and of                      *)
(* streamlined_education_pdf_to_json, run as a script.  effects is what    *)
(* the run has done to the disk, exit_code the status of the process.      *)
(***************************************************************************)
EntryScripts ==
    { "organize_question_solution_pairs", "quick_organize_files",
      "organize_documents", "streamlined" }

\* what the source path names when the script starts; "none": no --input
SourceKinds == { "none", "missing", "file", "directory" }

\* the command lines of the model: only streamlined has --batch and may be
\* run without an input
CommandLines ==
    { e \in [script : EntryScripts, given : SourceKinds, source : SourceKinds,
             batch : BOOLEAN, output_exists : BOOLEAN, has_pdfs : BOOLEAN] :
        /\ e.source = e.given
        /\ e.script # "streamlined" => (~e.batch /\ e.given # "none")
        /\ e.has_pdfs => e.given = "directory" }

EntryInit ==
    /\ entry \in CommandLines
    /\ effects = {}
    /\ exit_code = 0
    /\ entry_pc = "main"
    /\ PairingIdle
    /\ RecoveryIdle
    /\ MainIdle
    /\ CallIdle
    /\ AiIdle
    /\ TempIdle
    /\ BatchIdle
    /\ RetryIdle
    /\ UploadIdle

\* main of organize_question_solution_pairs and of quick_organize_files:
\* if not os.path.isdir(args.source_dir): return 1
MainChecksSource ==
    /\ entry_pc = "main"
    /\ entry.script \in {"organize_question_solution_pairs",
                         "quick_organize_files"}
    /\ entry_pc' = IF entry.source = "directory" THEN "organize" ELSE "exited"
    /\ exit_code' = IF entry.source = "directory" THEN exit_code ELSE 1
    /\ UNCHANGED << entry, effects >>
    /\ UNCHANGED << pairVars, groupOnlyVars, recoveryVars, mainVars, callVars,
                    aiVars, tempVars, batchVars, retryVars,
                    uploadVars >>

\* main of organize_documents: the source and the output are created when
\* they do not exist
MainCreatesDirectories ==
    /\ entry_pc = "main"
    /\ entry.script = "organize_documents"
    /\ effects' = effects
          \cup (IF entry.source = "missing" THEN {"makedirs_source"} ELSE {})
          \cup (IF entry.output_exists THEN {} ELSE {"makedirs_output"})
    /\ entry' = [entry EXCEPT
                   !.source = IF @ = "missing" THEN "directory" ELSE @,
                   !.output_exists = TRUE]
    /\ entry_pc' = "organize"
    /\ UNCHANGED exit_code
    /\ UNCHANGED << pairVars, groupOnlyVars, recoveryVars, mainVars, callVars,
                    aiVars, tempVars, batchVars, retryVars,
                    uploadVars >>

\* the input of streamlined is what its mode needs
streamlined_input_ok(e) ==
    IF e.batch
    THEN e.source = "directory" /\ e.has_pdfs
    ELSE e.source = "file"

\* main of streamlined_education_pdf_to_json: an input that its mode cannot
\* use is reported and main returns None
MainStreamlined ==
    /\ entry_pc = "main"
    /\ entry.script = "streamlined"
    /\ entry_pc' = IF streamlined_input_ok(entry) THEN "organize" ELSE "exited"
    /\ UNCHANGED << entry, effects, exit_code >>
    /\ UNCHANGED << pairVars, groupOnlyVars, recoveryVars, mainVars, callVars,
                    aiVars, tempVars, batchVars, retryVars,
                    uploadVars >>

\* what organize_files, process_batch or the conversion of one file does:
\* the output directories are made first, then the source is listed
organizing(e) ==
    IF e.script = "streamlined" /\ ~e.batch
    THEN {"convert"}
    ELSE (IF e.output_exists THEN {} ELSE {"makedirs_output"})
         \cup (IF e.source = "directory" THEN {"organize"} ELSE {})

\* organize_files / process_batch / pdf_to_educational_json, then the end of
\* the process: os.listdir raises on a source that is no directory
MainOrganizes ==
    /\ entry_pc = "organize"
    /\ effects' = effects \cup organizing(entry)
    /\ exit_code' =
          IF entry.script # "streamlined" /\ entry.source # "directory"
          THEN 1 ELSE 0
    /\ entry_pc' = "exited"
    /\ UNCHANGED entry
    /\ UNCHANGED << pairVars, groupOnlyVars, recoveryVars, mainVars, callVars,
                    aiVars, tempVars, batchVars, retryVars,
                    uploadVars >>

EntryNext ==
    \/ MainChecksSource
    \/ MainCreatesDirectories
    \/ MainStreamlined
    \/ MainOrganizes

EntrySpec == EntryInit /\ [][EntryNext]_vars

(***************************************************************************)
(* dataprocessing/pinecone_manager: upsert_chunks and query under          *)
(* @retry(stop=stop_after_attempt(3), wait=wait_exponential(...)).  Each   *)
(* call of the index succeeds or raises; upserted is the log of the        *)
(* batches the index has taken.                                            *)
(***************************************************************************)
\* stop_after_attempt(3)
max_attempt_number == 3

\* tenacity stop_after_attempt(n) stopping one attempt later
stop_after_later_attempt(n, attempt) == attempt >= n + 1

\* tenacity stop_after_attempt(n): stop when this was the n-th attempt
stop_after_attempt(n, attempt) == attempt >= n

\* the calls of the model: query is one call of the index, upsert_chunks one
\* call for each batch
RetriedCalls ==
    { [fn |-> "query", batches |-> 1] }
    \cup { [fn |-> "upsert_chunks", batches |-> n] : n \in 0..MaxBatches }

RetryInit ==
    /\ retried \in RetriedCalls
    /\ attempt_number = 0
    /\ batch_index = 1
    /\ upserted = <<>>
    /\ retry_pc = "call"
    /\ PairingIdle
    /\ RecoveryIdle
    /\ MainIdle
    /\ CallIdle
    /\ AiIdle
    /\ TempIdle
    /\ BatchIdle
    /\ EntryIdle
    /\ UploadIdle

\* the wrapped function is called: the first attempt, or one after the wait
Attempt ==
    /\ retry_pc \in {"call", "waiting"}
    /\ attempt_number' = attempt_number + 1
    /\ batch_index' = 1
    /\ retry_pc' = IF retried.batches = 0 THEN "returned" ELSE "running"
    /\ UNCHANGED << retried, upserted >>
    /\ UNCHANGED << pairVars, groupOnlyVars, recoveryVars, mainVars, callVars,
                    aiVars, tempVars, batchVars, entryVars,
                    uploadVars >>

\* self.index.upsert / self.index.query returns
IndexCallReturns ==
    /\ retry_pc = "running"
    /\ upserted' = IF retried.fn = "upsert_chunks"
                   THEN Append(upserted, batch_index) ELSE upserted
    /\ batch_index' = batch_index + 1
    /\ retry_pc' = IF batch_index = retried.batches
                   THEN "returned" ELSE "running"
    /\ UNCHANGED << retried, attempt_number >>
    /\ UNCHANGED << pairVars, groupOnlyVars, recoveryVars, mainVars, callVars,
                    aiVars, tempVars, batchVars, entryVars,
                    uploadVars >>

\* self.index.upsert / self.index.query raises: the except clause logs and
\* raises again, and retry stops with RetryError or waits for the next attempt
IndexCallRaises ==
    /\ retry_pc = "running"
    /\ retry_pc' = IF stop_after_attempt(max_attempt_number, attempt_number)
                   THEN "raised" ELSE "waiting"
    /\ UNCHANGED << retried, attempt_number, batch_index, upserted >>
    /\ UNCHANGED << pairVars, groupOnlyVars, recoveryVars, mainVars, callVars,
                    aiVars, tempVars, batchVars, entryVars,
                    uploadVars >>

RetryNext ==
    \/ Attempt
    \/ IndexCallReturns
    \/ IndexCallRaises

RetrySpec == RetryInit /\ [][RetryNext]_vars

(***************************************************************************)
(* dataprocessing/upload_to_pinecone.upload_to_pinecone.  A batch is named *)
(* by the index i of its first chunk; failing holds the batches for which  *)
(* index.upsert raises.                                                    *)
(***************************************************************************)
\* range(0, total_chunks, batch_size)
batch_starts(total_chunks, batch_size) ==
    { i \in 0..(total_chunks - 1) : i % batch_size = 0 }

Uploads ==
    { u \in [total_chunks : 0..MaxChunks, batch_size : {1, 2, 100},
             failing : SUBSET (0..(MaxChunks - 1))] :
        u.failing \subseteq batch_starts(u.total_chunks, u.batch_size) }

UploadInit ==
    /\ upload \in Uploads
    /\ upload_i = 0
    /\ attempted = <<>>
    /\ upload_pc = "loop"
    /\ PairingIdle
    /\ RecoveryIdle
    /\ MainIdle
    /\ CallIdle
    /\ AiIdle
    /\ TempIdle
    /\ BatchIdle
    /\ EntryIdle
    /\ RetryIdle

\* index.upsert(vectors=vectors) returns: the loop goes on
UpsertBatch ==
    /\ upload_pc = "loop"
    /\ upload_i < upload.total_chunks
    /\ upload_i \notin upload.failing
    /\ attempted' = Append(attempted, upload_i)
    /\ upload_i' = upload_i + upload.batch_size
    /\ UNCHANGED << upload, upload_pc >>
    /\ UNCHANGED << pairVars, groupOnlyVars, recoveryVars, mainVars, callVars,
                    aiVars, tempVars, batchVars, entryVars, retryVars >>

\* index.upsert raises: except Exception: return False
UpsertRaises ==
    /\ upload_pc = "loop"
    /\ upload_i < upload.total_chunks
    /\ upload_i \in upload.failing
    /\ attempted' = Append(attempted, upload_i)
    /\ upload_pc' = "returned False"
    /\ UNCHANGED << upload, upload_i >>
    /\ UNCHANGED << pairVars, groupOnlyVars, recoveryVars, mainVars, callVars,
                    aiVars, tempVars, batchVars, entryVars, retryVars >>

\* the loop is over: return True
UploadReturnsTrue ==
    /\ upload_pc = "loop"
    /\ upload_i >= upload.total_chunks
    /\ upload_pc' = "returned True"
    /\ UNCHANGED << upload, upload_i, attempted >>
    /\ UNCHANGED << pairVars, groupOnlyVars, recoveryVars, mainVars, callVars,
                    aiVars, tempVars, batchVars, entryVars, retryVars >>

UploadNext ==
    \/ UpsertBatch
    \/ UpsertRaises
    \/ UploadReturnsTrue

UploadSpec == UploadInit /\ [][UploadNext]_vars

(***************************************************************************)
(* ai_organize_question_solution_pairs: organize_files_with_ai classifies  *)
(* every PDF with the model, groups the names with find_similar_files and  *)
(* copies each file to a pair directory or to individual_notes.            *)
(***************************************************************************)
\* bound of the model: the entries of the source directory
MaxListing == 3

\* def find_similar_files(files, similarity_threshold=0.6)
default_similarity_threshold == Frac(3, 5)

AiDirectories ==
    { {"alg p1 qn.pdf", "alg p1 sol.pdf", "p1 sol extra.pdf", "geo notes.pdf"},
      {"alg p1 qn.pdf", "--.PDF", "README.txt", "ALG P1 QN ANS.pdf"} }

AiListings ==
    UNION { Orderings(S) :
              S \in { T \in UNION { SUBSET D : D \in AiDirectories } :
                        Cardinality(T) <= MaxListing } }

\* what classify_file_with_deepseek returns first; the confidence is only
\* printed
Classifications == {"question_paper", "solution", "standalone_note", "unknown"}

\* set(re.findall(r'\w+', os.path.splitext(file)[0].lower()))
name_words(file) == Words(lower(splitext_root(file)))

AiNames == UNION AiDirectories

\* the words of the names of the model, computed once
NameWordsTable == [f \in AiNames |-> name_words(f)] @@ <<>>

AiPdfTable == [f \in AiNames |-> is_pdf(f)] @@ <<>>

\* len(common_words) / max(len(words1), len(words2))
name_similarity(words1, words2) ==
    Frac(Cardinality(words1 \cap words2),
         Max(Cardinality(words1), Cardinality(words2)))

\* the inner loop of find_similar_files when it keeps no set of processed
\* files
RECURSIVE similar_scan_without_processed(_, _, _, _, _)
similar_scan_without_processed(file1, files, k, thr, acc) ==
    IF k > Len(files) THEN acc
    ELSE IF NameWordsTable[file1] = {} \/ NameWordsTable[files[k]] = {}
    THEN similar_scan_without_processed(file1, files, k + 1, thr, acc)
    ELSE IF ~FracGt(thr, name_similarity(NameWordsTable[file1],
                                         NameWordsTable[files[k]]))
    THEN similar_scan_without_processed(file1, files, k + 1, thr,
             [similar_files |-> Append(acc.similar_files, files[k]),
              processed     |-> acc.processed])
    ELSE similar_scan_without_processed(file1, files, k + 1, thr, acc)

\* the inner loop of find_similar_files, from files[k] on;
\* acc = [similar_files, processed]
RECURSIVE similar_scan(_, _, _, _, _)
similar_scan(file1, files, k, thr, acc) ==
    IF k > Len(files) THEN acc
    ELSE IF files[k] \in acc.processed
    THEN similar_scan(file1, files, k + 1, thr, acc)
    ELSE IF NameWordsTable[file1] = {} \/ NameWordsTable[files[k]] = {}
    THEN similar_scan(file1, files, k + 1, thr, acc)
    ELSE IF ~FracGt(thr, name_similarity(NameWordsTable[file1],
                                         NameWordsTable[files[k]]))
    THEN similar_scan(file1, files, k + 1, thr,
             [similar_files |-> Append(acc.similar_files, files[k]),
              processed     |-> acc.processed \cup {files[k]}])
    ELSE similar_scan(file1, files, k + 1, thr, acc)

\* the end of one round of the outer loop; acc = [pairs, processed]
group_found(file1, scan, acc) ==
    [pairs     |-> IF Len(scan.similar_files) > 1
                   THEN Append(acc.pairs, scan.similar_files)
                   ELSE acc.pairs,
     processed |-> scan.processed \cup {file1}]

\* the outer loop of find_similar_files, from files[i] on
RECURSIVE find_similar_from(_, _, _, _)
find_similar_from(files, i, thr, acc) ==
    IF i > Len(files) THEN acc.pairs
    ELSE IF files[i] \in acc.processed
    THEN find_similar_from(files, i + 1, thr, acc)
    ELSE find_similar_from(files, i + 1, thr,
             group_found(files[i],
                 similar_scan(files[i], files, i + 1, thr,
                     [similar_files |-> << files[i] >>,
                      processed     |-> acc.processed]),
                 acc))

find_similar_files(files, thr) ==
    find_similar_from(files, 1, thr, [pairs |-> << >>, processed |-> {}])

\* classifications.get(f, ("unknown", 0.0))[0]
classification_of(cls, f) ==
    IF \E c \in cls : c[1] = f
    THEN (CHOOSE c \in cls : c[1] = f)[2]
    ELSE "unknown"

has_classification(cls, group, wanted) ==
    \E k \in 1..Len(group) : classification_of(cls, group[k]) = wanted

pairs_dir == "out/question_solution_pairs"
notes_dir == "out/individual_notes"

\* os.path.join(pairs_dir, f"pair_{pair_count}")
pair_dir(n) == pairs_dir \o "/pair_" \o ToString(n)

\* pdf_files[:max_files] when max_files is given and smaller
limited(files, limit) ==
    IF limit # 0 /\ Len(files) > limit THEN SubSeq(files, 1, limit) ELSE files

\* the variables of the other routines that organize_files_with_ai leaves
nonAiVars ==
    << similarity_threshold, solution_files, question_files, pairs, sol_index,
       remaining_files, rem_index, unpaired_files, groupOnlyVars,
       recoveryVars, mainVars, callVars, batchVars, entryVars, retryVars,
       uploadVars, tempVars >>

AiInit ==
    /\ script = "ai_organize_question_solution_pairs"
    /\ file_list \in AiListings
    /\ max_files \in {0, 2}
    /\ pc = "start"
    /\ pdf_files = << >>
    /\ paired_files = {}
    /\ classifications = {}
    /\ similar_groups = << >>
    /\ group_index = 1
    /\ pair_count = 0
    /\ copied = << >>
    /\ file_index = 1
    /\ organized = << >>
    /\ similarity_threshold = Frac(0, 1)
    /\ solution_files = << >>
    /\ question_files = << >>
    /\ pairs = << >>
    /\ sol_index = 1
    /\ remaining_files = << >>
    /\ rem_index = 1
    /\ unpaired_files = << >>
    /\ GroupOnlyIdle
    /\ RecoveryIdle
    /\ MainIdle
    /\ CallIdle
    /\ BatchIdle
    /\ EntryIdle
    /\ RetryIdle
    /\ UploadIdle
    /\ TempIdle

\* the PDF files of os.listdir(source_dir), cut to max_files
ListPdfFiles ==
    /\ pc = "start"
    /\ pdf_files' = limited(SelectSeq(file_list, LAMBDA f : AiPdfTable[f]),
                            max_files)
    /\ file_index' = 1
    /\ pc' = "classify"
    /\ UNCHANGED << script, file_list, paired_files, max_files,
                    classifications, similar_groups, group_index, pair_count,
                    copied, organized >>
    /\ UNCHANGED nonAiVars

\* classifications[file] = classify_file_with_deepseek(file_path)
ClassifyFile ==
    /\ pc = "classify"
    /\ file_index <= Len(pdf_files)
    /\ \E c \in Classifications :
          classifications' =
              classifications \cup { << pdf_files[file_index], c >> }
    /\ file_index' = file_index + 1
    /\ UNCHANGED << script, file_list, pc, pdf_files, paired_files, max_files,
                    similar_groups, group_index, pair_count, copied,
                    organized >>
    /\ UNCHANGED nonAiVars

\* similar_groups = find_similar_files(pdf_files)
FindSimilarFiles ==
    /\ pc = "classify"
    /\ file_index > Len(pdf_files)
    /\ similar_groups' =
          find_similar_files(pdf_files, default_similarity_threshold)
    /\ group_index' = 1
    /\ pc' = "groups"
    /\ UNCHANGED << script, file_list, pdf_files, paired_files, max_files,
                    classifications, pair_count, copied, file_index,
                    organized >>
    /\ UNCHANGED nonAiVars

\* the group holds a question paper and a solution
is_pair_group(cls, group) ==
    /\ has_classification(cls, group, "question_paper")
    /\ has_classification(cls, group, "solution")

\* a group with a question paper and a solution is copied to its directory
CopyPairGroup ==
    /\ pc = "groups"
    /\ group_index <= Len(similar_groups)
    /\ is_pair_group(classifications, similar_groups[group_index])
    /\ pair_count' = pair_count + 1
    /\ copied' = copied \o
          [ k \in 1..Len(similar_groups[group_index]) |->
              << similar_groups[group_index][k], pair_dir(pair_count + 1) >> ]
    /\ paired_files' = paired_files \cup
          { similar_groups[group_index][k] :
              k \in 1..Len(similar_groups[group_index]) }
    /\ group_index' = group_index + 1
    /\ UNCHANGED << script, file_list, pc, pdf_files, max_files,
                    classifications, similar_groups, file_index, organized >>
    /\ UNCHANGED nonAiVars

\* any other group is left for the second loop
SkipGroup ==
    /\ pc = "groups"
    /\ group_index <= Len(similar_groups)
    /\ ~is_pair_group(classifications, similar_groups[group_index])
    /\ group_index' = group_index + 1
    /\ UNCHANGED << script, file_list, pc, pdf_files, paired_files, max_files,
                    classifications, similar_groups, pair_count, copied,
                    file_index, organized >>
    /\ UNCHANGED nonAiVars

GroupsDone ==
    /\ pc = "groups"
    /\ group_index > Len(similar_groups)
    /\ file_index' = 1
    /\ pc' = "remaining"
    /\ UNCHANGED << script, file_list, pdf_files, paired_files, max_files,
                    classifications, similar_groups, group_index, pair_count,
                    copied, organized >>
    /\ UNCHANGED nonAiVars

\* second loop: the file was copied with its group
SkipPairedFile ==
    /\ pc = "remaining"
    /\ file_index <= Len(pdf_files)
    /\ pdf_files[file_index] \in paired_files
    /\ file_index' = file_index + 1
    /\ UNCHANGED << script, file_list, pc, pdf_files, paired_files, max_files,
                    classifications, similar_groups, group_index, pair_count,
                    copied, organized >>
    /\ UNCHANGED nonAiVars

\* second loop: both branches copy the file to notes_dir
CopyToNotes ==
    /\ pc = "remaining"
    /\ file_index <= Len(pdf_files)
    /\ pdf_files[file_index] \notin paired_files
    /\ copied' = Append(copied, << pdf_files[file_index], notes_dir >>)
    /\ file_index' = file_index + 1
    /\ UNCHANGED << script, file_list, pc, pdf_files, paired_files, max_files,
                    classifications, similar_groups, group_index, pair_count,
                    organized >>
    /\ UNCHANGED nonAiVars

\* return pair_count, len(pdf_files) - len(paired_files)
ReturnCounts ==
    /\ pc = "remaining"
    /\ file_index > Len(pdf_files)
    /\ organized' = << pair_count, Len(pdf_files) - Cardinality(paired_files) >>
    /\ pc' = "done"
    /\ UNCHANGED << script, file_list, pdf_files, paired_files, max_files,
                    classifications, similar_groups, group_index, pair_count,
                    copied, file_index >>
    /\ UNCHANGED nonAiVars

AiNext ==
    \/ ListPdfFiles
    \/ ClassifyFile
    \/ FindSimilarFiles
    \/ CopyPairGroup
    \/ SkipGroup
    \/ GroupsDone
    \/ SkipPairedFile
    \/ CopyToNotes
    \/ ReturnCounts

AiSpec == AiInit /\ [][AiNext]_vars

(***************************************************************************)
(* education_pdf_to_json.process_with_deepseek: the prompt is written to a *)
(* temporary file, the model is run, the file is removed and the output    *)
(* parsed. The locals it shares by name with the function of               *)
(* streamlined_education_pdf_to_json are kept in the same variables.       *)
(***************************************************************************)
\* the names tempfile.NamedTemporaryFile may choose
TempNames == {"/tmp/tmpa", "/tmp/tmpb"}

\* an object with a metadata that is no dict, after some prose
ProseBadMetadata == "Result: {\"metadata\": 5}"

PromptOutcomes ==
    LlmOutcomes \cup { [kind |-> "ok", stdout |-> ProseBadMetadata] }

\* the part between the json fence and the next fence, else the output
fenced_part(out) ==
    LET json_start == Find(out, Fence \o "json", 1)
        json_end == Find(out, Fence, json_start + 7)
    IN  IF json_start # 0 /\ json_end # 0
        THEN strip(Slice(out, json_start + 7, json_end))
        ELSE out

\* s.replace(kw, "")
RECURSIVE remove_all_from(_, _, _)
remove_all_from(s, i, kw) ==
    IF i > Len(s) THEN ""
    ELSE IF MatchAt(s, i, kw) THEN remove_all_from(s, i + Len(kw), kw)
    ELSE At(s, i) \o remove_all_from(s, i + 1, kw)

\* s.replace("\\", "\\\\")
RECURSIVE double_backslashes_from(_, _)
double_backslashes_from(s, i) ==
    IF i > Len(s) THEN ""
    ELSE IF At(s, i) = "\\" THEN "\\\\" \o double_backslashes_from(s, i + 1)
    ELSE At(s, i) \o double_backslashes_from(s, i + 1)

\* re.search(r'\{.*\}', output, re.DOTALL), the replacements and json.loads
braced_span_parsed(out, first_brace, last_brace) ==
    IF first_brace # 0 /\ last_brace # 0 /\ first_brace < last_brace
    THEN json_loads(
             double_backslashes_from(
                 remove_all_from(
                     remove_all_from(Slice(out, first_brace, last_brace + 1),
                                     1, "\\("),
                     1, "\\)"),
                 1))
    ELSE [ok |-> FALSE, val |-> JNone]

second_parse(out) ==
    braced_span_parsed(out, Find(out, "{", 1), RFind(out, "}"))

\* adding the metadata to the parsed value raises
adding_metadata_raises(parsed_json) ==
    parsed_json.t # "dict" \/ metadata_update_raises(parsed_json)

\* the dict returned when nothing parses; the message of the decoder is
\* not spelled out
raw_content_json(out, md) ==
    JDict(<< [key |-> "metadata", value |-> md],
             [key |-> "raw_content", value |-> JStr(out)],
             [key |-> "parsing_error", value |-> JStr("JSONDecodeError")] >>)

nonTempVars ==
    << pairVars, groupOnlyVars, mainVars, callVars, batchVars, entryVars,
       retryVars, uploadVars, aiVars, json_text, fixed_json >>

TempInit ==
    /\ text \in DocumentTexts
    /\ metadata \in Metadatas
    /\ llm \in PromptOutcomes
    /\ recovery_pc = "prompt"
    /\ temp_files = {}
    /\ temp_path = ""
    /\ output = ""
    /\ json_text = JNone
    /\ fixed_json = ""
    /\ exception = None
    /\ result = JNone
    /\ PairingIdle
    /\ MainIdle
    /\ CallIdle
    /\ BatchIdle
    /\ EntryIdle
    /\ RetryIdle
    /\ UploadIdle
    /\ AiIdle

\* with tempfile.NamedTemporaryFile(mode='w', delete=False) as temp
WritePrompt ==
    /\ recovery_pc = "prompt"
    /\ \E name \in TempNames \ temp_files :
          /\ temp_files' = temp_files \cup {name}
          /\ temp_path' = name
    /\ recovery_pc' = "run"
    /\ UNCHANGED << text, metadata, llm, output, exception, result >>
    /\ UNCHANGED nonTempVars

\* subprocess.run returns: os.unlink(temp_path), the output is cut out
RunModel ==
    /\ recovery_pc = "run"
    /\ llm.kind = "ok"
    /\ temp_files' = temp_files \ {temp_path}
    /\ output' = fenced_part(strip(llm.stdout))
    /\ recovery_pc' = "parse"
    /\ UNCHANGED << text, metadata, llm, exception, result, temp_path >>
    /\ UNCHANGED nonTempVars

\* except subprocess.CalledProcessError: return None
RunModelExitsNonZero ==
    /\ recovery_pc = "run"
    /\ llm.kind = "CalledProcessError"
    /\ exception' = llm.kind
    /\ result' = JNone
    /\ recovery_pc' = "returned"
    /\ UNCHANGED << text, metadata, llm, output, temp_files, temp_path >>
    /\ UNCHANGED nonTempVars

\* subprocess.run raises something else; except Exception: return None
RunModelRaises ==
    /\ recovery_pc = "run"
    /\ llm.kind \notin {"ok", "CalledProcessError"}
    /\ exception' = llm.kind
    /\ result' = JNone
    /\ recovery_pc' = "returned"
    /\ UNCHANGED << text, metadata, llm, output, temp_files, temp_path >>
    /\ UNCHANGED nonTempVars

\* json.loads(output) gives a dict: it is returned with the metadata
ParseOutput ==
    /\ recovery_pc = "parse"
    /\ json_loads(output).ok
    /\ ~adding_metadata_raises(json_loads(output).val)
    /\ result' = with_metadata(json_loads(output).val, metadata)
    /\ recovery_pc' = "returned"
    /\ UNCHANGED << text, metadata, llm, output, exception, temp_files,
                    temp_path >>
    /\ UNCHANGED nonTempVars

\* json.loads(output) gives a value the metadata cannot be added to;
\* except Exception: return None
ParsedOutputRaises ==
    /\ recovery_pc = "parse"
    /\ json_loads(output).ok
    /\ adding_metadata_raises(json_loads(output).val)
    /\ exception' = IF json_loads(output).val.t = "dict"
                    THEN "AttributeError" ELSE "TypeError"
    /\ result' = JNone
    /\ recovery_pc' = "returned"
    /\ UNCHANGED << text, metadata, llm, output, temp_files, temp_path >>
    /\ UNCHANGED nonTempVars

\* json.loads(output) fails, the part between the braces parses
ParseBraces ==
    /\ recovery_pc = "parse"
    /\ ~json_loads(output).ok
    /\ second_parse(output).ok
    /\ ~adding_metadata_raises(second_parse(output).val)
    /\ result' = with_metadata(second_parse(output).val, metadata)
    /\ recovery_pc' = "returned"
    /\ UNCHANGED << text, metadata, llm, output, exception, temp_files,
                    temp_path >>
    /\ UNCHANGED nonTempVars

\* the part between the braces parses, adding the metadata raises
ParsedBracesRaise ==
    /\ recovery_pc = "parse"
    /\ ~json_loads(output).ok
    /\ second_parse(output).ok
    /\ adding_metadata_raises(second_parse(output).val)
    /\ exception' = "AttributeError"
    /\ result' = JNone
    /\ recovery_pc' = "returned"
    /\ UNCHANGED << text, metadata, llm, output, temp_files, temp_path >>
    /\ UNCHANGED nonTempVars

\* nothing parses: the raw output is returned
ReturnRawContent ==
    /\ recovery_pc = "parse"
    /\ ~json_loads(output).ok
    /\ ~second_parse(output).ok
    /\ result' = raw_content_json(output, metadata)
    /\ recovery_pc' = "returned"
    /\ UNCHANGED << text, metadata, llm, output, exception, temp_files,
                    temp_path >>
    /\ UNCHANGED nonTempVars

TempNext ==
    \/ WritePrompt
    \/ RunModel
    \/ RunModelExitsNonZero
    \/ RunModelRaises
    \/ ParseOutput
    \/ ParsedOutputRaises
    \/ ParseBraces
    \/ ParsedBracesRaise
    \/ ReturnRawContent

TempSpec == TempInit /\ [][TempNext]_vars

(***************************************************************************)
(* Properties of the pairing routines.                                     *)
(***************************************************************************)
Range(q) == { q[i] : i \in 1..Len(q) }

\* how many pair slots hold the file f
PairSlots(f) ==
    Cardinality({ ks \in (1..Len(pairs)) \X {1, 2} : pairs[ks[1]][ks[2]] = f })

PairMembers == { pairs[k][1] : k \in 1..Len(pairs) } \cup
               { pairs[k][2] : k \in 1..Len(pairs) }

\* every input file is in exactly one pair slot or in the unpaired list
IsPartition ==
    /\ \A f \in Range(pdf_files) :
          \/ PairSlots(f) = 1 /\ f \notin Range(unpaired_files)
          \/ PairSlots(f) = 0 /\ f \in Range(unpaired_files)
    /\ PairMembers \cup Range(unpaired_files) = Range(pdf_files)

\* C1: when streamlined_education_pdf_to_json.find_question_solution_pairs
\* returns, for every list of distinct paths and every threshold, each input
\* file is in exactly one returned pair or in the unpaired list, never in
\* both, never in two pairs, never in neither.
C1_Partition ==
    (script = "streamlined" /\ pc = "done") => IsPartition

\* The partition of C1 for the thresholds that are not negative.
PartitionFromZero ==
    (script = "streamlined" /\ pc = "done"
        /\ ~FracGt(Frac(0, 1), similarity_threshold)) => IsPartition

\* C5: find_question_solution_pairs on ["Paper1_Question.pdf",
\* "Paper1_Solution.pdf", "Topic3_Notes.pdf"] with threshold 0.6 returns
\* exactly one pair, made of Paper1_Question.pdf and Paper1_Solution.pdf, and
\* the unpaired files are exactly Topic3_Notes.pdf.
C5_PaperScenario ==
    ( /\ script = "streamlined"
      /\ file_list = <<"Paper1_Question.pdf", "Paper1_Solution.pdf",
                       "Topic3_Notes.pdf">>
      /\ similarity_threshold = Frac(3, 5)
      /\ pc = "done" )
    => /\ Len(pairs) = 1
       /\ {pairs[1][1], pairs[1][2]} =
              {"Paper1_Question.pdf", "Paper1_Solution.pdf"}
       /\ unpaired_files = <<"Topic3_Notes.pdf">>

\* C6: for "2021_JC_Prelim_Qn.pdf" and "2022_JC_Prelim_Ans.pdf" the two names
\* normalize to the same base tokens, calculate_filename_similarity is 1.0,
\* and the pairing routine pairs them despite the differing years.
C6_YearScenario ==
    ( /\ script = "streamlined"
      /\ file_list = <<"2021_JC_Prelim_Qn.pdf", "2022_JC_Prelim_Ans.pdf">>
      /\ pc = "done" )
    => /\ Words(similarity_base("2021_JC_Prelim_Qn.pdf")) =
              Words(similarity_base("2022_JC_Prelim_Ans.pdf"))
       /\ FracEq(calculate_filename_similarity("2021_JC_Prelim_Qn.pdf",
                                               "2022_JC_Prelim_Ans.pdf"),
                 Frac(1, 1))
       /\ Len(pairs) = 1
       /\ {pairs[1][1], pairs[1][2]} =
              {"2021_JC_Prelim_Qn.pdf", "2022_JC_Prelim_Ans.pdf"}

\* position of the file f in the list q (0 when absent)
PosIn(q, f) == IF f \in Range(q) THEN CHOOSE i \in 1..Len(q) : q[i] = f ELSE 0

\* the files consumed by the pairs committed before pair k
ConsumedBefore(k) == { pairs[j][1] : j \in 1..(k - 1) } \cup
                     { pairs[j][2] : j \in 1..(k - 1) }

\* the files consumed when the first loop reached the solution file s
ConsumedAt(s) ==
    UNION { {pairs[j][1], pairs[j][2]} :
            j \in { i \in 1..Len(pairs) :
                      PosIn(solution_files, pairs[i][1]) <
                          PosIn(solution_files, s) } }

\* the score of the pair (s, q) in the first loop
Score(s, q) == similarity(script, s, q)

\* C7: greedy first pass of find_question_solution_pairs.  Solution files are
\* visited in input order; the partner committed for one is a question file
\* not yet paired, scoring strictly above the threshold and at least as high
\* as every other question file not yet paired, the first of these in input
\* order on ties; with no unpaired question file strictly above the threshold
\* the solution file stays unpaired; no question file is chosen twice.
C7_GreedyFirstPass ==
    (script = "streamlined" /\ pc = "first_pass") =>
    /\ \A k \in 1..Len(pairs) :
          LET s == pairs[k][1]
              q == pairs[k][2]
              avail == Range(question_files) \ ConsumedBefore(k)
          IN  /\ s \in Range(solution_files)
              /\ PosIn(file_list, s) < PosIn(file_list, solution_files[sol_index - 1]) + 1
              /\ k > 1 => PosIn(file_list, pairs[k - 1][1]) < PosIn(file_list, s)
              /\ q \in avail
              /\ FracGt(Score(s, q), similarity_threshold)
              /\ \A q2 \in avail :
                    /\ ~FracGt(Score(s, q2), Score(s, q))
                    /\ FracEq(Score(s, q2), Score(s, q)) =>
                          PosIn(file_list, q) <= PosIn(file_list, q2)
    /\ \A i \in 1..(sol_index - 1) :
          LET s == solution_files[i]
              avail == Range(question_files) \ ConsumedAt(s)
          IN  /\ (\A q2 \in avail : ~FracGt(Score(s, q2), similarity_threshold))
                    => s \notin PairMembers
              /\ (s \notin PairMembers
                    /\ ~FracGt(Frac(0, 1), similarity_threshold))
                    => \A q2 \in avail :
                          ~FracGt(Score(s, q2), similarity_threshold)
    /\ \A j, k \in 1..Len(pairs) : j # k => pairs[j][2] # pairs[k][2]
    /\ \A i, j \in 1..Len(solution_files) :
          i < j => PosIn(file_list, solution_files[i]) <
                       PosIn(file_list, solution_files[j])

\* a finished first pass that chose for its first pair among several question
\* files above the threshold, the chosen one not the first of them, and left
\* a later solution file without a partner because its best question file
\* was consumed
C7_Witness ==
    /\ script = "streamlined"
    /\ pc = "first_pass"
    /\ sol_index > Len(solution_files)
    /\ Len(pairs) >= 1
    /\ \E q2 \in Range(question_files) \ {pairs[1][2]} :
          /\ FracGt(Score(pairs[1][1], q2), similarity_threshold)
          /\ PosIn(file_list, q2) < PosIn(file_list, pairs[1][2])
    /\ \E s \in Range(solution_files) \ PairMembers :
          /\ FracGt(Score(s, pairs[1][2]), similarity_threshold)
          /\ \A q2 \in Range(question_files) \ PairMembers :
                ~FracGt(Score(s, q2), similarity_threshold)

\* f carries a solution keyword and a question keyword
MatchesBoth(f) == SolutionTable[f] /\ QuestionTable[f]

\* C8: in streamlined_education_pdf_to_json.find_question_solution_pairs and
\* organize_documents.find_pairs_and_classify a file whose name matches both a
\* solution keyword and a question keyword is in neither bucket and in no
\* pair, and ends in the unpaired / standalone output.
C8_BothKeywordsExcluded ==
    (script \in {"streamlined", "organize_documents"} /\ pc # "start") =>
    \A f \in Range(pdf_files) :
        MatchesBoth(name_of(script, f)) =>
            /\ f \notin Range(solution_files)
            /\ f \notin Range(question_files)
            /\ f \notin PairMembers
            /\ pc = "done" => f \in Range(unpaired_files)

\* a finished run with a file of both keywords that scores above the threshold
\* against a file of a bucket
C8_Witness ==
    /\ script \in {"streamlined", "organize_documents"}
    /\ pc = "done"
    /\ \E f \in Range(pdf_files) :
          /\ MatchesBoth(name_of(script, f))
          /\ f \in Range(unpaired_files)
          /\ \E g \in Range(solution_files) \cup Range(question_files) :
                FracGt(Score(f, g), similarity_threshold)

\* C9: every pair returned by quick_organize_files.find_pairs_and_classify is
\* made of two distinct files of complementary roles, one matching the
\* solution keywords and the other the question keywords.
C9_QuickPairsComplementary ==
    script = "quick_organize_files" =>
    \A k \in 1..Len(pairs) :
        /\ pairs[k][1] # pairs[k][2]
        /\ \/ QuickSolutionTable[pairs[k][1]] /\ QuickQuestionTable[pairs[k][2]]
           \/ QuickQuestionTable[pairs[k][1]] /\ QuickSolutionTable[pairs[k][2]]

(***************************************************************************)
(* Properties of organize_question_solution_pairs.                         *)
(***************************************************************************)
\* how many places of the returned groups hold the file f
GroupSlots(f) ==
    Cardinality({ ki \in (1..Len(pairs)) \X (1..MaxFiles) :
                    /\ ki[2] <= Len(pairs[ki[1]].value)
                    /\ pairs[ki[1]].value[ki[2]] = f })

\* how many places of the unpaired list hold the file f
UnpairedSlots(f) ==
    Cardinality({ i \in 1..Len(unpaired_files) : unpaired_files[i] = f })

\* C10: when organize_question_solution_pairs.find_question_solution_pairs
\* returns, every PDF file of the directory is in exactly one returned group
\* or in the unpaired list, never in both and never omitted, also when two
\* solution files or two question files have the same base name.
C10_GroupsComplete ==
    pc = "group_done" =>
        \A f \in Range(pdf_files) : GroupSlots(f) + UnpairedSlots(f) = 1

\* The part of C10 that the code keeps: no file is returned twice.
GroupsDisjoint ==
    pc = "group_done" =>
        \A f \in Range(pdf_files) : GroupSlots(f) + UnpairedSlots(f) <= 1

\* C10 holds for the directories whose solution files have distinct bases.
GroupsCompleteForDistinctBases ==
    (pc = "group_done" /\ Len(solution_bases) = Len(solution_files)) =>
        \A f \in Range(pdf_files) : GroupSlots(f) + UnpairedSlots(f) = 1

(***************************************************************************)
(* Properties of process_with_deepseek.                                    *)
(***************************************************************************)
\* the value is tagged as the structure create_fallback_json builds
tagged_fallback(v) ==
    has_key(v, "extraction_method")
    /\ value_of(v, "extraction_method") = JStr("fallback")

\* C2: for every raw output of the model (valid JSON, fenced JSON, malformed
\* JSON, text without braces, empty output) and for a failing subprocess,
\* process_with_deepseek returns without raising, and the value returned has
\* the key "metadata" and the key "content".
C2_MetadataAndContent ==
    recovery_pc = "returned" =>
        has_key(result, "metadata") /\ has_key(result, "content")

\* The part of C2 that the code keeps: the value returned has "metadata".
ResultHasMetadata ==
    recovery_pc = "returned" => has_key(result, "metadata")

\* o holds a fenced block with a well-formed object that has metadata and
\* content
fenced_object(o) ==
    /\ fenced_json(o).ok
    /\ has_key(fenced_json(o).val, "metadata")
    /\ has_key(fenced_json(o).val, "content")

\* C3: when the raw output is prose around a fenced json block that holds a
\* well-formed object with metadata and content, process_with_deepseek
\* returns that object, with the content the model produced, and not the
\* fallback structure tagged extraction_method "fallback".
C3_FencedObjectReturned ==
    (recovery_pc = "returned" /\ llm.kind = "ok" /\ fenced_object(output)) =>
        /\ ~tagged_fallback(result)
        /\ has_key(result, "content")
        /\ value_of(result, "content")
             = value_of(fenced_json(output).val, "content")

\* What the code does for the outputs of C3: the fallback structure.
FencedObjectFallsBack ==
    (recovery_pc = "returned" /\ llm.kind = "ok" /\ fenced_object(output)) =>
        tagged_fallback(result) /\ exception = "TypeError"

\* o with a comma put before the character at index i
with_comma(o, i) == Slice(o, 1, i) \o "," \o Slice(o, i, Len(o) + 1)

\* the places where one comma makes o an object that has content
comma_places(o) ==
    { i \in 2..Len(o) : has_key(json_loads(with_comma(o, i)).val, "content") }

\* the only defect of o is a missing comma
missing_comma_only(o) == ~json_loads(o).ok /\ comma_places(o) # {}

\* C4: when the raw output is an object whose only defect is a missing comma
\* between two keys, process_with_deepseek returns the repaired object, with
\* the content the model produced, and neither the fallback structure nor a
\* record without that content.
C4_MissingCommaRepaired ==
    (recovery_pc = "returned" /\ llm.kind = "ok" /\ missing_comma_only(output))
    => /\ ~tagged_fallback(result)
       /\ has_key(result, "content")
       /\ \E i \in comma_places(output) :
            value_of(result, "content")
              = value_of(json_loads(with_comma(output, i)).val, "content")

\* What the code does for the outputs of C4: a record with the metadata of
\* the file name and nothing else.
MissingCommaGivesMetadataOnly ==
    (recovery_pc = "returned" /\ llm.kind = "ok" /\ missing_comma_only(output))
    => result = JDict(<< [key |-> "metadata", value |-> metadata] >>)

\* C11: every group that find_question_solution_pairs of
\* organize_question_solution_pairs returns holds at least one file that
\* is_solution_file classifies as a solution and at least one that it does
\* not; a group of question files only, or of solution files only, is never
\* returned.
C11_GroupsComplementary ==
    pc = "group_done" =>
        \A k \in 1..Len(pairs) :
            /\ \E i \in 1..Len(pairs[k].value) :
                   GroupSolutionTable[pairs[k].value[i]]
            /\ \E i \in 1..Len(pairs[k].value) :
                   ~GroupSolutionTable[pairs[k].value[i]]

\* The part of C11 that the code keeps: a returned group has two files or more.
GroupsHaveTwoFiles ==
    pc = "group_done" => \A k \in 1..Len(pairs) : Len(pairs[k].value) > 1

\* the threshold t lies in the closed interval [0, 1]
in_unit_interval(t) == ~FracGt(Frac(0, 1), t) /\ ~FracGt(t, Frac(1, 1))

\* C12: the pairing routine validates its threshold: a call with a threshold
\* outside the closed interval [0, 1] fails with an error and returns no
\* pairing, so every run that returns has a threshold inside [0, 1].
C12_ThresholdValidated ==
    (script \in Scripts /\ pc = "done") =>
        in_unit_interval(similarity_threshold)

\* The part of C12 that the code keeps: every threshold inside [0, 1] is
\* accepted, the run that starts with it goes on to its first loop.
ThresholdInRangeAccepted ==
    (script \in Scripts /\ pc = "start"
       /\ in_unit_interval(similarity_threshold)) => ENABLED Classify

\* C13: the threshold given on the command line of quick_organize_files
\* (-t/--threshold) is the threshold find_pairs_and_classify uses when it
\* decides whether to commit a pair.
C13_CommandLineThresholdUsed ==
    (args.parsed /\ pc \in {"start", "first_pass", "second_pass", "done"})
        => FracEq(similarity_threshold, args.threshold)

\* What the code does for C13: the pairing that main starts uses 0.8.
MainUsesDefaultThreshold ==
    (args.parsed /\ pc \in {"start", "first_pass", "second_pass", "done"})
        => similarity_threshold = quick_default_threshold


(***************************************************************************)
(* Properties of classify_document and of the keyword classifiers.         *)
(***************************************************************************)
\* the decision table over the three flags: a condition and its outcome
table_rows(sol, q, note) ==
    << << sol /\ q, "combined_question_solution" >>,
       << sol /\ note, "notes_with_solutions" >>,
       << q /\ note, "notes_with_questions" >>,
       << sol, "solution" >>,
       << q, "question_paper" >>,
       << note, "standalone_note" >> >>

\* the first row whose condition holds, 0 when none does
first_row(rows) ==
    IF \E k \in 1..Len(rows) : rows[k][1]
    THEN CHOOSE k \in 1..Len(rows) :
            rows[k][1] /\ \A j \in 1..(k - 1) : ~rows[j][1]
    ELSE 0

\* value is what the first matching row says; with no row, what the patterns
\* of the name say
follows_table(rows, row, value, f) ==
    IF row # 0
    THEN value = rows[row][2]
    ELSE /\ value = classify_by_pattern(lower(f))
         /\ value \in { "solution", "question_paper", "standalone_note",
                        "notes_with_solutions", "unknown" }

has_flags(f, sol, q, note) ==
    /\ is_solution_file(f) = sol
    /\ is_question_file(f) = q
    /\ is_note_file(f) = note

table_of(f) ==
    table_rows(is_solution_file(f), is_question_file(f), is_note_file(f))

\* C14: classify_document returns the outcome of the first row of the
\* decision table (solution and question, solution and note, question and
\* note, solution, question, note) whose flags the file name has; the patterns
\* of the name decide only when it has no flag, and end in "unknown".
C14_DecisionTable ==
    Returned("classify_document") =>
        follows_table(table_of(call.arguments[1]),
                      first_row(table_of(call.arguments[1])),
                      returned.value, call.arguments[1])

\* a name with the three flags was classified by the first row of the table
C14_Witness ==
    /\ Returned("classify_document")
    /\ has_flags(call.arguments[1], TRUE, TRUE, TRUE)
    /\ returned.value = "combined_question_solution"


\* C15: a file name with a solution keyword, no question keyword and no note
\* keyword is classified "solution", and a file name with a question keyword,
\* no solution keyword and no note keyword is classified "question_paper".
C15_SingleFlagRoles ==
    Returned("classify_document") =>
        /\ has_flags(call.arguments[1], TRUE, FALSE, FALSE)
              => returned.value = "solution"
        /\ has_flags(call.arguments[1], FALSE, TRUE, FALSE)
              => returned.value = "question_paper"

\* a name with a solution keyword alone was classified "solution"
C15_Witness ==
    /\ Returned("classify_document")
    /\ has_flags(call.arguments[1], TRUE, FALSE, FALSE)
    /\ returned.value = "solution"

\* C15 as stated: whatever its note keywords, a file name with a solution
\* keyword and no question keyword is classified "solution", and one with a
\* question keyword and no solution keyword "question_paper".
C15_RolesWhateverTheNotes ==
    Returned("classify_document") =>
        /\ (is_solution_file(call.arguments[1])
              /\ ~is_question_file(call.arguments[1]))
              => returned.value = "solution"
        /\ (is_question_file(call.arguments[1])
              /\ ~is_solution_file(call.arguments[1]))
              => returned.value = "question_paper"


\* the characters that delimit the tokens of a file name
IsTokenDelim(c) == c \in {"_", "-", " ", "."}

IsLetterOrDigit(c) == IsWordChar(c) /\ c # "_"

\* kw occurs in s as a complete token: between delimiters or the string ends
whole_token(kw, s) ==
    \E i \in 1..Len(s) :
        /\ MatchAt(s, i, kw)
        /\ (i = 1 \/ IsTokenDelim(Ch(s, i - 1)))
        /\ (i + Len(kw) - 1 = Len(s) \/ IsTokenDelim(Ch(s, i + Len(kw))))

\* kw occurs in s as a complete token that no underscore delimits
whole_token_without_underscore(kw, s) ==
    \E i \in 1..Len(s) :
        /\ MatchAt(s, i, kw)
        /\ (i = 1 \/ (IsTokenDelim(Ch(s, i - 1)) /\ Ch(s, i - 1) # "_"))
        /\ \/ i + Len(kw) - 1 = Len(s)
           \/ /\ IsTokenDelim(Ch(s, i + Len(kw)))
              /\ Ch(s, i + Len(kw)) # "_"

\* wherever kw occurs in s, a letter or a digit is next to it
only_inside_words(kw, s) ==
    \A i \in 1..Len(s) :
        MatchAt(s, i, kw) =>
            \/ (i > 1 /\ IsLetterOrDigit(Ch(s, i - 1)))
            \/ /\ i + Len(kw) - 1 < Len(s)
               /\ IsLetterOrDigit(Ch(s, i + Len(kw)))

some_whole_token(kws, s) == \E k \in 1..Len(kws) : whole_token(kws[k], s)

all_inside_words(kws, s) == \A k \in 1..Len(kws) : only_inside_words(kws[k], s)

\* the keywords a called classifier searches for
keywords_of(fn) ==
    IF fn = "is_solution_file" THEN solution_keywords ELSE question_keywords

IsClassifierCall ==
    /\ call.fn \in {"is_solution_file", "is_question_file"}
    /\ returned.done

\* C16: is_solution_file and is_question_file return True for a file name in
\* which one of their keywords is a complete token, delimited by underscore,
\* hyphen, space, dot or the ends of the name, and False for a file name in
\* which their keywords occur only inside longer words.
C16_WholeTokenMatching ==
    IsClassifierCall =>
        /\ some_whole_token(keywords_of(call.fn), lower(call.arguments[1]))
              => returned.value = TRUE
        /\ all_inside_words(keywords_of(call.fn), lower(call.arguments[1]))
              => returned.value = FALSE

\* what the classifiers keep: a keyword inside a longer word is no match
KeywordInsideWordNotMatched ==
    (IsClassifierCall
        /\ all_inside_words(keywords_of(call.fn), lower(call.arguments[1])))
        => returned.value = FALSE

\* what the classifiers keep: a token that no underscore delimits is a match
TokenWithoutUnderscoreMatched ==
    (IsClassifierCall
        /\ \E k \in 1..Len(keywords_of(call.fn)) :
              whole_token_without_underscore(keywords_of(call.fn)[k],
                                             lower(call.arguments[1])))
        => returned.value = TRUE


(***************************************************************************)
(* Properties of calculate_filename_similarity.                            *)
(***************************************************************************)
IsSimilarityCall == Returned("calculate_filename_similarity")

\* the words of the base of a file name
base_words(f) == Words(similarity_base(f))

\* C17: calculate_filename_similarity(a, b) equals
\* calculate_filename_similarity(b, a) for all file names a and b.
C17_SimilaritySymmetric ==
    IsSimilarityCall =>
        FracEq(returned.value,
               calculate_filename_similarity(call.arguments[2],
                                             call.arguments[1]))

\* two names with bases of different sizes that share a word were compared
C17_Witness ==
    /\ IsSimilarityCall
    /\ Cardinality(base_words(call.arguments[1]))
          < Cardinality(base_words(call.arguments[2]))
    /\ returned.value.num > 0

\* C18: calculate_filename_similarity(a, a) is 1 for every file name a whose
\* base has a word, and the similarity is 0 when the base of either name has
\* no word.
C18_SelfSimilarityAndEmptyBase ==
    IsSimilarityCall =>
        /\ (call.arguments[1] = call.arguments[2]
              /\ base_words(call.arguments[1]) # {})
              => FracEq(returned.value, Frac(1, 1))
        /\ (base_words(call.arguments[1]) = {}
              \/ base_words(call.arguments[2]) = {})
              => FracEq(returned.value, Frac(0, 1))

\* a name whose base has several words was compared with itself
C18_Witness ==
    /\ IsSimilarityCall
    /\ call.arguments[1] = call.arguments[2]
    /\ Cardinality(base_words(call.arguments[1])) > 1
    /\ FracEq(returned.value, Frac(1, 1))

\* a name was compared with a name whose base has no word
EmptyBaseCompared ==
    /\ IsSimilarityCall
    /\ base_words(call.arguments[1]) # {}
    /\ base_words(call.arguments[2]) = {}
    /\ call.arguments[2] # ""


(***************************************************************************)
(* Properties of create_fallback_json.                                     *)
(***************************************************************************)
\* the list under content[k] of a fallback structure
content_list(v, k) == value_of(value_of(v, "content"), k).items

\* C19: every value create_fallback_json returns has extraction_method
\* "fallback", the keys metadata and content, at most 5 entries in
\* content.key_concepts and at most 3 in content.practice_questions, however
\* many definitions, formulas and questions the patterns find in the text.
C19_FallbackShape ==
    Returned("create_fallback_json") =>
        /\ tagged_fallback(returned.value)
        /\ has_key(returned.value, "metadata")
        /\ has_key(returned.value, "content")
        /\ Len(content_list(returned.value, "key_concepts")) <= 5
        /\ Len(content_list(returned.value, "practice_questions")) <= 3

\* the patterns found more than 5 concepts and more than 3 questions, and
\* the value returned holds 5 and 3
C19_Witness ==
    /\ Returned("create_fallback_json")
    /\ Len(scrape(definition_patterns, call.arguments[1])) > 5
    /\ Len(scrape(question_patterns, call.arguments[1])) > 3
    /\ Len(content_list(returned.value, "key_concepts")) = 5
    /\ Len(content_list(returned.value, "practice_questions")) = 3


(***************************************************************************)
(* Properties of the order of the recovery.                                *)
(***************************************************************************)
\* the call has returned after the model printed an output
ReturnedAfterOutput == recovery_pc = "returned" /\ llm.kind = "ok"

\* both parsing attempts were made on the repaired text and both failed
both_parses_failed ==
    /\ exception = None
    /\ ~json_loads(fixed_json).ok
    /\ ~content_parsed(fixed_json).ok

\* the three steps in their order, the first that succeeds gives the result
in_order(strict, narrow) ==
    IF strict.ok
    THEN result = with_metadata(strict.val, metadata)
    ELSE IF narrow.ok
    THEN result = JDict(entries_put(narrow.val.entries, "metadata", metadata))
    ELSE tagged_fallback(result)

\* C20: the strict parse of the repaired text, the parse of its content part
\* and the fallback scrape are tried in this order and the first success is
\* returned; a value tagged "fallback" is returned only when the model
\* printed an output and both parses of it failed, or when the call of the
\* model failed.
C20_RecoveryLadder ==
    /\ (ReturnedAfterOutput /\ exception = None)
          => in_order(json_loads(fixed_json), content_parsed(fixed_json))
    /\ (ReturnedAfterOutput /\ tagged_fallback(result)) => both_parses_failed

\* The part of C20 that the code keeps: when no exception leaves the try
\* block, the first step that succeeds gives the result.
RecoveryInOrder ==
    (ReturnedAfterOutput /\ exception = None)
        => in_order(json_loads(fixed_json), content_parsed(fixed_json))

\* A fallback after an output is the result of two failed parses or of an
\* exception raised before the parsing was complete.
FallbackAfterFailedParsesOrException ==
    (ReturnedAfterOutput /\ tagged_fallback(result))
        => (both_parses_failed
            \/ exception \in {"TypeError", "AttributeError"})


(***************************************************************************)
(* Properties of batch_convert.                                            *)
(***************************************************************************)
\* the entries of results for the file pdf
entries_of(pdf) == { k \in 1..Len(results) : results[k][1] = pdf }

successful == { k \in 1..Len(results) : results[k][2] }

failed == { k \in 1..Len(results) : ~results[k][2] }

\* C21: a conversion that fails or raises stops no other conversion and
\* changes no other result: future.result() never raises in batch_convert,
\* every entry of results says what the conversion of its own file did, and
\* when the batch ends every matched file has exactly one entry, so that the
\* successful and the failed conversions add up to the matched files.
C21_FailuresIsolated ==
    /\ batch_pc # "raised"
    /\ \A i \in in_state("collected") :
          \E k \in entries_of(futures[i].pdf) :
              results[k][2] = (futures[i].conversion = "converted")
    /\ batch_pc = "done" =>
          /\ \A i \in 1..Len(futures) :
                Cardinality(entries_of(futures[i].pdf)) = 1
          /\ Cardinality(successful) + Cardinality(failed) = Len(futures)

\* a batch of three files ended with two workers: one conversion raised, one
\* returned False and one succeeded, after the one that raised
C21_Witness ==
    /\ batch_pc = "done"
    /\ max_workers = 2
    /\ Len(futures) = 3
    /\ futures[1].conversion = "raises"
    /\ futures[2].conversion = "no_text"
    /\ futures[3].conversion = "converted"
    /\ results[1] = << futures[2].pdf, FALSE >>
    /\ results[3] = << futures[3].pdf, TRUE >>


\* C22: the files matched by the pattern are written to distinct output
\* paths: no two futures have the same output path, and no path of the
\* output directory is written by two conversions.
C22_DistinctOutputPaths ==
    /\ \A i, j \in 1..Len(futures) :
          i # j => output_path(futures[i].pdf, batch_output_dir)
                      # output_path(futures[j].pdf, batch_output_dir)
    /\ \A k \in 1..Len(output_files) : Len(output_files[k].value) <= 1

\* What the code keeps: files whose names differ before the extension are
\* written to distinct paths.
DistinctStemsDistinctOutputs ==
    \A i, j \in 1..Len(futures) :
        splitext_root(basename(futures[i].pdf))
            # splitext_root(basename(futures[j].pdf))
        => output_path(futures[i].pdf, batch_output_dir)
              # output_path(futures[j].pdf, batch_output_dir)

\* Two conversions that run at the same time have saved the same path.
SamePathSavedInParallel ==
    \E i, j \in in_state("saved") :
        /\ i # j
        /\ output_path(futures[i].pdf, batch_output_dir)
              = output_path(futures[j].pdf, batch_output_dir)


(***************************************************************************)
(* Properties of the command lines.                                        *)
(***************************************************************************)
\* the run expects its source path to name a directory
wants_directory == entry.script # "streamlined" \/ entry.batch

\* C23: a script given a source path that is not an existing directory ends
\* with exit code 1 and has organized, copied and created nothing; a script
\* ends with exit code 0 only after it has organized or converted.
C23_InvalidSourceFailsFast ==
    entry_pc = "exited" =>
        /\ (wants_directory /\ entry.given # "directory")
              => (exit_code = 1 /\ effects = {})
        /\ exit_code = 0 => effects \cap {"organize", "convert"} # {}

\* What the code keeps: the two scripts that test os.path.isdir end with
\* exit code 1 and without any effect on a source that is no directory.
CheckedMainsFailFast ==
    (entry_pc = "exited"
        /\ entry.script \in {"organize_question_solution_pairs",
                             "quick_organize_files"}
        /\ entry.given # "directory")
        => (exit_code = 1 /\ effects = {})

\* organize_documents given a path that does not exist has created it, has
\* organized it and has ended with exit code 0.
MissingSourceCreated ==
    /\ entry_pc = "exited"
    /\ entry.script = "organize_documents"
    /\ entry.given = "missing"
    /\ "makedirs_source" \in effects
    /\ exit_code = 0


(***************************************************************************)
(* Properties of the retried calls of PineconeManager.                     *)
(***************************************************************************)
\* a call that has returned or raised makes no further attempt
no_attempt_after_end ==
    retry_pc \in {"returned", "raised"}
        => (attempt_number' = attempt_number /\ retry_pc' = retry_pc)

\* C24: upsert_chunks and query are attempted at most 3 times; once an
\* attempt has succeeded no further attempt is made; and when the third
\* attempt fails the call ends with an error: it raises only then, and it
\* does not wait for a fourth attempt.
C24_BoundedRetry ==
    /\ [](attempt_number <= 3)
    /\ [](retry_pc = "raised" => attempt_number = 3)
    /\ [](retry_pc = "waiting" => attempt_number < 3)
    /\ [][no_attempt_after_end]_vars

\* upsert_chunks of three batches raised after its third attempt, the index
\* having taken the first batch three times
C24_Witness ==
    /\ retry_pc = "raised"
    /\ retried.fn = "upsert_chunks"
    /\ attempt_number = 3
    /\ upserted = << 1, 1, 1, 2 >>


(***************************************************************************)
(* Properties of upload_to_pinecone.                                       *)
(***************************************************************************)
UploadReturned == upload_pc \in {"returned True", "returned False"}

\* C25: a batch whose upsert fails does not end the run: when
\* upload_to_pinecone returns, every batch of the chunks was handed to
\* index.upsert, the batches after a failed one included.
C25_LaterBatchesAttempted ==
    UploadReturned =>
        Range(attempted) = batch_starts(upload.total_chunks, upload.batch_size)

\* What the code does: it returns False at the first batch that fails, and
\* no batch after that one is attempted.
UploadStopsAtFirstFailure ==
    upload_pc = "returned False" =>
        /\ attempted[Len(attempted)] \in upload.failing
        /\ \A k \in 1..(Len(attempted) - 1) : attempted[k] \notin upload.failing
        /\ \A b \in batch_starts(upload.total_chunks, upload.batch_size) :
              b > attempted[Len(attempted)] => b \notin Range(attempted)

\* A run without a failing batch attempts every batch and returns True.
UploadWithoutFailureComplete ==
    (UploadReturned /\ upload.failing = {}) =>
        /\ upload_pc = "returned True"
        /\ Range(attempted)
              = batch_starts(upload.total_chunks, upload.batch_size)


(***************************************************************************)
(* Properties of the second pass.                                          *)
(***************************************************************************)
\* C27: the second pass never commits a pair: none of the files the first
\* pass left is ever paired, so the pairs after the second pass are the pairs
\* after the first pass, for every script, file list and threshold.
C27_SecondPassCommitsNothing ==
    pc \in {"second_pass", "done"} =>
        \A i \in 1..Len(remaining_files) : remaining_files[i] \notin paired_files


\* from a threshold of 0 on, the second pass commits nothing: a solution file
\* and a question file both left by the first pass are not above the threshold
SecondPassFromZero ==
    similarity_threshold.num >= 0 => C27_SecondPassCommitsNothing


(***************************************************************************)
(* The first pass as a function of the file list and the threshold, and    *)
(* the matchings of the solution and question files above the threshold.   *)
(***************************************************************************)
\* what the first loop does with the best match of solution file sols[k]
first_pass_commit(sol_file, best, acc) ==
    IF Truthy(best.match)
    THEN [pairs  |-> Append(acc.pairs, <<sol_file, best.match>>),
          paired |-> acc.paired \cup {sol_file, best.match}]
    ELSE acc

\* the first loop from solution_files[k] on; acc = [pairs, paired]
RECURSIVE first_pass(_, _, _, _, _, _)
first_pass(sc, sols, qs, k, thr, acc) ==
    IF k > Len(sols) THEN acc
    ELSE IF sols[k] \in acc.paired
    THEN first_pass(sc, sols, qs, k + 1, thr, acc)
    ELSE first_pass(sc, sols, qs, k + 1, thr,
             first_pass_commit(sols[k],
                 find_best_match(sc, sols[k], qs, acc.paired, thr), acc))

\* the pairs the first loop commits for a file list in the given order
greedy_pairs(sc, files, thr) ==
    first_pass(sc, SelectSeq(files, LAMBDA f : is_sol(sc, f)),
               SelectSeq(files, LAMBDA f : is_q(sc, f)), 1, thr,
               [pairs |-> <<>>, paired |-> {}]).pairs

pair_set(ps) == { ps[i] : i \in 1..Len(ps) }

\* the solution/question edges above the threshold
edges_above(sc, files, thr) ==
    { e \in files \X files :
        /\ is_sol(sc, e[1]) /\ is_q(sc, e[2])
        /\ FracGt(similarity(sc, e[1], e[2]), thr) }

is_matching(M) ==
    \A e1, e2 \in M : e1 # e2 => e1[1] # e2[1] /\ e1[2] # e2[2]

maximum_matching_size(E) ==
    CHOOSE n \in 0..Cardinality(E) :
        /\ \E M \in SUBSET E : is_matching(M) /\ Cardinality(M) = n
        /\ \A M \in SUBSET E : is_matching(M) => Cardinality(M) <= n

\* the first loop of find_question_solution_pairs has run to its end
FirstPassOver ==
    /\ script = "streamlined"
    /\ pc = "first_pass"
    /\ sol_index > Len(solution_files)

files_of(fl) == { fl[i] : i \in 1..Len(fl) }

\* C26: the pairs the first loop of find_question_solution_pairs commits are
\* fixed by the order of the file list and the threshold (the same list and
\* threshold always give the same pairs), and they form a matching of the
\* solution/question edges above the threshold, which need not be a maximum
\* one and need not survive a reordering of the list (C26_Witness).
C26_GreedyDeterministicNotMaximum ==
    FirstPassOver =>
        /\ pairs = greedy_pairs(script, file_list, similarity_threshold)
        /\ pair_set(pairs) \subseteq
               edges_above(script, files_of(file_list), similarity_threshold)
        /\ is_matching(pair_set(pairs))
        /\ Cardinality(pair_set(pairs)) = Len(pairs)
        /\ Len(pairs) <= maximum_matching_size(
               edges_above(script, files_of(file_list), similarity_threshold))

\* a file list whose pairs are fewer than a maximum matching, and of which
\* another order gives another set of pairs
C26_Witness ==
    /\ FirstPassOver
    /\ Len(pairs) < maximum_matching_size(
           edges_above(script, files_of(file_list), similarity_threshold))
    /\ \E other \in Orderings(files_of(file_list)) :
           pair_set(greedy_pairs(script, other, similarity_threshold))
               # pair_set(pairs)


(***************************************************************************)
(* Properties of chunk_text.                                               *)
(***************************************************************************)
\* the sentences and paragraphs chunk_text hands to its chunks, in order
RECURSIVE pieces_from(_, _, _)
pieces_from(paragraphs, k, max_chunk_size) ==
    IF k > Len(paragraphs) THEN << >>
    ELSE (IF Len(paragraphs[k]) > max_chunk_size
          THEN split_sentences_from(paragraphs[k], 1, 1)
          ELSE << paragraphs[k] >>)
         \o pieces_from(paragraphs, k + 1, max_chunk_size)

RECURSIVE flatten_from(_, _)
flatten_from(lists, k) ==
    IF k > Len(lists) THEN << >>
    ELSE lists[k] \o flatten_from(lists, k + 1)

pieces_fit(pieces, max_chunk_size) ==
    \A i \in 1..Len(pieces) : Len(pieces[i]) <= max_chunk_size

\* chunk_text has returned for a text that is not empty
ChunkedText == Returned("chunk_text") /\ call.arguments[1] # ""

no_empty_chunk(chunks) == \A i \in 1..Len(chunks) : chunks[i] # ""

pieces_kept_in_order(txt, max_chunk_size) ==
    flatten_from(chunk_pieces(txt, max_chunk_size), 1)
        = pieces_from(split_paragraphs_from(txt, 1, 1), 1, max_chunk_size)

fitting_chunks_within_size(lists, max_chunk_size) ==
    \A i \in 1..Len(lists) :
        pieces_fit(lists[i], max_chunk_size)
            => Len(join_from(lists[i], 1)) <= max_chunk_size

\* C28: for a text that is not empty chunk_text emits no empty chunk, its
\* chunks hold the paragraphs and sentences of the text in their order, none
\* dropped and none twice, and a chunk whose pieces each fit max_chunk_size
\* is no longer than max_chunk_size.
C28_ChunksNonEmptyOrderedBounded ==
    ChunkedText =>
        /\ no_empty_chunk(returned.value)
        /\ pieces_kept_in_order(call.arguments[1], call.arguments[2])
        /\ fitting_chunks_within_size(
               chunk_pieces(call.arguments[1], call.arguments[2]),
               call.arguments[2])

\* the pieces are kept in order and the chunks returned are their joins
ChunkPiecesKeptInOrder ==
    ChunkedText =>
        /\ pieces_kept_in_order(call.arguments[1], call.arguments[2])
        /\ returned.value
               = joined(chunk_pieces(call.arguments[1], call.arguments[2]))

ChunksOfFittingPiecesWithinSize ==
    ChunkedText =>
        fitting_chunks_within_size(
            chunk_pieces(call.arguments[1], call.arguments[2]),
            call.arguments[2])

\* an empty chunk comes first when the first piece does not fit with the two
\* characters counted for the separator
EmptyChunkEmitted ==
    /\ ChunkedText
    /\ Len(call.arguments[1]) <= call.arguments[2]
    /\ returned.value = << "", call.arguments[1] >>

\* the only empty chunks are a first chunk without pieces and chunks of one
\* empty piece
EmptyChunksOnlyWithoutText ==
    ChunkedText =>
        \A i \in 1..Len(returned.value) :
            returned.value[i] = "" =>
                chunk_pieces(call.arguments[1], call.arguments[2])[i]
                    \in { << >>, << "" >> }


(***************************************************************************)
(* Properties of organize_files_with_ai.                                   *)
(***************************************************************************)
members(group) == { group[k] : k \in 1..Len(group) }

groups_disjoint(groups) ==
    /\ \A i \in 1..Len(groups) :
          Cardinality(members(groups[i])) = Len(groups[i])
    /\ \A i, j \in 1..Len(groups) :
          i # j => members(groups[i]) \cap members(groups[j]) = {}

\* the directories file f was copied to, one entry for each copy
copies_of(f) == { k \in 1..Len(copied) : copied[k][1] = f }

files_copied_to(dir) ==
    { copied[k][1] : k \in { n \in 1..Len(copied) : copied[n][2] = dir } }

\* dir is the directory of one group with a question paper and a solution
is_pair_directory(dir) ==
    \E i \in 1..Len(similar_groups) :
        /\ is_pair_group(classifications, similar_groups[i])
        /\ files_copied_to(dir) = members(similar_groups[i])

AiOrganized == script = "ai_organize_question_solution_pairs" /\ pc = "done"

each_file_copied_once ==
    \A f \in members(pdf_files) :
        /\ Cardinality(copies_of(f)) = 1
        /\ \A k \in copies_of(f) :
              copied[k][2] = notes_dir \/ is_pair_directory(copied[k][2])

\* C29: the groups find_similar_files returns are pairwise disjoint, and
\* organize_files_with_ai copies every PDF exactly once, to the directory of
\* one group that holds a question paper and a solution or to
\* individual_notes; the second number it returns is the number of files
\* copied to individual_notes.
C29_EveryFileCopiedOnce ==
    /\ script = "ai_organize_question_solution_pairs"
           => groups_disjoint(similar_groups)
    /\ AiOrganized =>
          /\ each_file_copied_once
          /\ \A k \in 1..Len(copied) : copied[k][1] \in members(pdf_files)
          /\ organized[2] = Cardinality(files_copied_to(notes_dir))
          /\ organized[1] = pair_count

\* a run that has copied a group to a pair directory and another file to
\* individual_notes
C29_Witness ==
    /\ AiOrganized
    /\ organized[1] >= 1
    /\ organized[2] >= 1

\* a group without a question paper or without a solution goes to
\* individual_notes file by file
GroupWithoutPairCopiedToNotes ==
    /\ AiOrganized
    /\ Len(similar_groups) >= 1
    /\ organized[1] = 0
    /\ files_copied_to(notes_dir) = members(pdf_files)


(***************************************************************************)
(* Properties of the prompt file of process_with_deepseek.                 *)
(***************************************************************************)
PromptCallReturned == temp_path # "" /\ recovery_pc = "returned"

\* C30: when process_with_deepseek of education_pdf_to_json has returned,
\* the temporary prompt file it created no longer exists, whether the model
\* succeeded, exited with a status that is not zero or raised.
C30_TempFileReleased ==
    PromptCallReturned => temp_path \notin temp_files

\* the file is removed on every path on which subprocess.run returned
TempFileRemovedAfterOutput ==
    (PromptCallReturned /\ llm.kind = "ok") => temp_path \notin temp_files

\* and on no path on which it raised
TempFileLeftAfterFailure ==
    (PromptCallReturned /\ llm.kind # "ok") =>
        temp_path \in temp_files /\ result = JNone

=============================================================================
